---- MODULE Spec2Model ----
(***************************************************************************)
(* A model of the place-to-shapefile resolver of MapPosterCreator          *)
(* (src/map_poster_creator/data.py).                                       *)
(*                                                                         *)
(*   Spec      the shapefile cache: _download_extract_shp, step by step    *)
(*   SpecUrl   _extract_shp_url over a URL index                           *)
(*   SpecCity  resolve_city and the prompt loop of _interactive_resolve    *)
(*   SpecParse _parse_polygons over polygon texts                          *)
(*   SpecRegions  the polygons of the region tree (get_all_region_polygons)*)
(*             and the containment search of scripts/match_cities.py       *)
(*   SpecFind  one run of find_download_shp, from the city to the fetch    *)
(*   SpecCrawl find_tree of scripts/build_region_tree.py over a site       *)
(*   SpecTree  the tree file: tree.write, then get_regions_tree            *)
(*   SpecRace  _download_extract_shp beside a second process doing the     *)
(*             same                                                        *)
(*   SpecRequest  one session.get through HTTPAdapter(max_retries=3)       *)
(*   SpecCountry  find_country_regions and its lru_cache                   *)
(*   SpecPoster   the two calls of resolve_city in one poster run          *)
(*   SpecBuild    find_tree, then fetch_polygons                           *)
(*   SpecCatalog  find_tree over catalogs with recurring texts and with    *)
(*             links back                                                  *)
(*                                                                         *)
(* Python strings and paths are sequences of one-character strings, so     *)
(* that split, endswith, Path.stem, lower, unidecode and int() are         *)
(* computed as the code computes them.                                     *)
(***************************************************************************)
EXTENDS Integers, Sequences, FiniteSets, TLC

VARIABLES
    \* ---- the shapefile cache (Spec)
    dirs,       \* directories under the cache root: path |-> [state, src]
    zips,       \* regular files under the cache root: path |-> URL downloaded
    pc,         \* position of the running _download_extract_shp call
    shp_url,    \* its argument
    fname,      \* its local fname (line 281, reassigned on line 285)
    hit,        \* whether the check of line 282 found the directory
    net,        \* whether the call has performed network I/O
    ret,        \* the directory the call returned
    err,        \* the exception the call raised
    prev,       \* the previous completed call
    \* ---- the URL index (SpecUrl)
    geofabrik_urls,  \* node name |-> sequence of URLs
    node_name,       \* the node _extract_shp_url was called with
    url_out,         \* its outcome
    \* ---- the gazetteer (SpecCity)
    city_df,     \* the gazetteer table, in table order
    country_df,  \* the Country table, in table order
    req,         \* the arguments of the running resolve_city call
    cpc,         \* its position
    choices,     \* the ranked candidates
    user_input,  \* the last line read by input()
    asked,       \* whether the call has listed the candidates and called input()
    result,      \* what resolve_city returned or raised
    \* ---- polygon texts (SpecParse)
    data,        \* the text _parse_polygons was given
    polygons,    \* what it returned or raised
    \* ---- the region tree (SpecRegions)
    regions,          \* the region tree, as loaded from the tree file
    all_polygons,     \* what get_all_region_polygons returned or raised
    region_polygons,  \* match_cities: the polygons by node name
    matched,          \* match_cities: the outcome of the search for one city
    \* ---- find_download_shp (SpecFind)
    lonlat,            \* the longitude and latitude of the gazetteer rows
    fpc,               \* position of the find_download_shp call
    freq,              \* its arguments
    sorted_distances,  \* its local sorted_distances
    region_node,       \* its local region_node (0 before the choice)
    ferr,              \* the exception it raised
    \* ---- the build of the region tree (SpecCrawl, SpecTree)
    site,               \* the listing pages of the site: status and links
    tpc,                \* position of the find_tree call
    region_tree,        \* the tree find_tree returned
    region_urls,        \* the URL index find_tree returned
    gets,               \* the URLs requested with session.get, in order
    built,              \* the tree that __main__ writes
    geofabrik_tree_nw,  \* the text of the tree file
    loaded,             \* the tree that get_regions_tree returned
    \* ---- a second process at the shapefile cache (SpecRace)
    second,             \* its position, its URL and its fname
    \* ---- one request of a session (SpecRequest)
    rq,                 \* the caller of session.get and the position of the call
    wire,               \* the attempts of the request and what came of each
    \* ---- the polygons of the tree (SpecBuild)
    ppc,                \* the nodes fetch_polygons has visited
    \* ---- a second run of the crawl (SpecCatalog)
    rerun,              \* what the second call of find_tree returned
    \* ---- one poster run (SpecPoster)
    cache,              \* the lru_cache of resolve_city: key and result
    geo,                \* the place the geojson editor was opened for
    \* ---- find_country_regions (SpecCountry)
    generators,         \* its lru_cache: country and the generator returned
    listed              \* the calls made, each with the names it yielded

vars == <<dirs, zips, pc, shp_url, fname, hit, net, ret, err, prev,
          geofabrik_urls, node_name, url_out,
          city_df, country_df, req, cpc, choices, user_input, asked, result,
          data, polygons, regions, all_polygons, region_polygons, matched,
          lonlat, fpc, freq, sorted_distances, region_node, ferr,
          site, tpc, region_tree, region_urls, gets,
          built, geofabrik_tree_nw, loaded,
          second, rq, wire, ppc, rerun, cache, geo, generators, listed>>

\* the variables of the specifications that follow SpecCity
ParseVars == <<data, polygons>>
RegionVars == <<regions, all_polygons, region_polygons, matched>>
FindVars == <<lonlat, fpc, freq, sorted_distances, region_node, ferr>>
CrawlVars == <<site, tpc, region_tree, region_urls, gets>>
TreeVars == <<built, geofabrik_tree_nw, loaded>>
BuildVars == <<CrawlVars, TreeVars>>
RequestVars == <<rq, wire>>
PosterVars == <<cache, geo>>
CountryVars == <<generators, listed>>
MoreVars == <<second, RequestVars, ppc, rerun, PosterVars, CountryVars>>
AfterCity == <<ParseVars, RegionVars, FindVars, BuildVars, MoreVars>>

(***************************************************************************)
(* Strings                                                                 *)
(***************************************************************************)

\* s.endswith(suffix)
EndsWith(s, suffix) ==
    /\ Len(s) >= Len(suffix)
    /\ SubSeq(s, Len(s) - Len(suffix) + 1, Len(s)) = suffix

\* s.rfind(c), 1-based; 0 when c does not occur
RFind(s, c) ==
    LET at == {i \in 1..Len(s) : s[i] = c}
    IN  IF at = {} THEN 0 ELSE CHOOSE i \in at : \A j \in at : j <= i

\* s.split(c)[-1]: what follows the last c (all of s when there is none)
LastComponent(s, c) == SubSeq(s, RFind(s, c) + 1, Len(s))

\* Path(p).stem: the final path component without its last suffix; a dot
\* that leads or ends the name starts no suffix
Stem(p) ==
    LET name == LastComponent(p, "/")
        dot == RFind(name, ".")
    IN  IF 1 < dot /\ dot < Len(name) THEN SubSeq(name, 1, dot - 1) ELSE name

GEOFABRIK_HREF_ATTRIBUTE_END ==
    <<"l","a","t","e","s","t","-","f","r","e","e",".","s","h","p",".","z","i","p">>

is_valid_download_url_contains(url) ==
    \E i \in 1..Len(url) : \E j \in i..Len(url) :
        SubSeq(url, i, j) = GEOFABRIK_HREF_ATTRIBUTE_END

is_valid_download_url(url) == EndsWith(url, GEOFABRIK_HREF_ATTRIBUTE_END)

(***************************************************************************)
(* The shapefile cache: _download_extract_shp                              *)
(***************************************************************************)

\* paths.shp_path, an absolute directory
shp_path == <<"/","s">>

\* The shapefile archives of three regions of the download server: two
\* regions of different parents share the file name g-latest-free.shp.zip.
UrlEuropeG == <<"h","/","e","/","g","-">> \o GEOFABRIK_HREF_ATTRIBUTE_END
UrlUsG == <<"h","/","u","/","g","-">> \o GEOFABRIK_HREF_ATTRIBUTE_END
UrlEuropeM == <<"h","/","e","/","m","-">> \o GEOFABRIK_HREF_ATTRIBUTE_END
ShpUrls == {UrlEuropeG, UrlUsG, UrlEuropeM}

NoPath == <<>>
NoCall == [url |-> NoPath, outcome |-> "none", ret |-> NoPath,
           net |-> FALSE, hit |-> FALSE]

\* path / name
Join(path, name) == IF name = <<>> THEN path ELSE path \o <<"/">> \o name

_get_extract_dir(path, fname_) == Join(path, Stem(fname_))

\* os.path.exists
Exists(p) == p \in DOMAIN dirs \/ p \in DOMAIN zips

\* wget.filename_fix_existing: "name (1).ext"; the index is 1 because the
\* names it scans are those of the working directory, none of which starts
\* with the absolute path
filename_fix_existing(filename) ==
    LET dot == RFind(filename, ".")
    IN  SubSeq(filename, 1, dot - 1) \o <<" ","(","1",")",".">>
            \o SubSeq(filename, dot + 1, Len(filename))

\* The file name wget.download(url, out=directory) saves under and returns:
\* directory + "/" + the URL's file name, renamed when such a file exists
wget_filename(url, out) ==
    LET filename == out \o <<"/">> \o LastComponent(url, "/")
    IN  IF Exists(filename) THEN filename_fix_existing(filename) ELSE filename

Put(f, k, v) == [x \in DOMAIN f \cup {k} |-> IF x = k THEN v ELSE f[x]]
Drop(f, k) == [x \in DOMAIN f \ {k} |-> f[x]]

\* a check for the downloaded archive instead of the extraction directory
CacheHitArchive(url) == Join(shp_path, LastComponent(url, "/")) \in DOMAIN zips

\* line 282, with fname of line 281
CacheHit(url) == _get_extract_dir(shp_path, LastComponent(url, "/")) \in DOMAIN dirs

\* the variables of the other two specifications
NotFetch == <<geofabrik_urls, node_name, url_out,
              city_df, country_df, req, cpc, choices, user_input, asked, result,
              AfterCity>>

\* lines 278-283: the call, up to the cache-hit check
_download_extract_shp(url) ==
    /\ pc = "idle"
    /\ shp_url' = url
    /\ fname' = LastComponent(url, "/")
    /\ err' = "none"
    /\ UNCHANGED <<dirs, zips, prev>>
    /\ IF CacheHit(url)
       THEN /\ pc' = "done"
            /\ hit' = TRUE
            /\ net' = FALSE
            /\ ret' = _get_extract_dir(shp_path, fname')
       ELSE /\ pc' = "download"
            /\ hit' = FALSE
            /\ net' = FALSE
            /\ ret' = NoPath

Call ==
    /\ UNCHANGED NotFetch
    /\ \E url \in ShpUrls : _download_extract_shp(url)

\* line 285, the download succeeds
DownloadOk ==
    /\ UNCHANGED NotFetch
    /\ pc = "download"
    /\ fname' = wget_filename(shp_url, shp_path)
    /\ zips' = Put(zips, fname', shp_url)
    /\ net' = TRUE
    /\ pc' = "mkdir"
    /\ UNCHANGED <<dirs, shp_url, hit, ret, err, prev>>

\* line 285, the download fails: nothing is saved in the cache root
DownloadFail ==
    /\ UNCHANGED NotFetch
    /\ pc = "download"
    /\ net' = TRUE
    /\ pc' = "failed"
    /\ err' = "URLError"
    /\ UNCHANGED <<dirs, zips, shp_url, fname, hit, ret, prev>>

\* lines 288-289: mkdir(parents=False, exist_ok=False)
Mkdir ==
    /\ UNCHANGED NotFetch
    /\ pc = "mkdir"
    /\ LET extract_dir == _get_extract_dir(shp_path, fname)
       IN  IF Exists(extract_dir)
           THEN /\ pc' = "failed"
                /\ err' = "FileExistsError"
                /\ UNCHANGED dirs
           ELSE \/ /\ dirs' = Put(dirs, extract_dir, [state |-> "empty", src |-> NoPath])
                   /\ pc' = "open"
                   /\ UNCHANGED err
                \/ /\ pc' = "failed"
                   /\ err' = "OSError"
                   /\ UNCHANGED dirs
    /\ UNCHANGED <<zips, shp_url, fname, hit, net, ret, prev>>

\* line 291: ZipFile(zip_fpath, "r")
OpenZip ==
    /\ UNCHANGED NotFetch
    /\ pc = "open"
    /\ \/ /\ pc' = "extract"
          /\ UNCHANGED err
       \/ /\ pc' = "failed"
          /\ err' = "BadZipFile"
    /\ UNCHANGED <<dirs, zips, shp_url, fname, hit, net, ret, prev>>

\* line 292: zf.extractall(path=str(extract_dir))
Extract ==
    /\ UNCHANGED NotFetch
    /\ pc = "extract"
    /\ LET extract_dir == _get_extract_dir(shp_path, fname)
       IN  \/ /\ dirs' = Put(dirs, extract_dir, [state |-> "complete", src |-> zips[fname]])
              /\ pc' = "remove"
              /\ UNCHANGED err
           \/ /\ dirs' = Put(dirs, extract_dir, [state |-> "partial", src |-> zips[fname]])
              /\ pc' = "failed"
              /\ err' = "OSError"
    /\ UNCHANGED <<zips, shp_url, fname, hit, net, ret, prev>>

\* lines 293-294: os.remove(zip_fpath); return extract_dir
Remove ==
    /\ UNCHANGED NotFetch
    /\ pc = "remove"
    /\ zips' = Drop(zips, fname)
    /\ ret' = _get_extract_dir(shp_path, fname)
    /\ pc' = "done"
    /\ UNCHANGED <<dirs, shp_url, fname, hit, net, err, prev>>

\* the call is over: its caller has the directory or the exception
Return ==
    /\ UNCHANGED NotFetch
    /\ pc \in {"done", "failed"}
    /\ pc' = "idle"
    /\ prev' = [url |-> shp_url, outcome |-> pc, ret |-> ret, net |-> net, hit |-> hit]
    /\ UNCHANGED <<dirs, zips, shp_url, fname, hit, net, ret, err>>

NoDirs == [x \in {} |-> NoPath]
NoRequest == [kind |-> "none"]
NoResult == [kind |-> "none", rows |-> <<>>]

FetchIdle ==
    /\ dirs = NoDirs
    /\ zips = NoDirs
    /\ pc = "idle"
    /\ shp_url = NoPath
    /\ fname = NoPath
    /\ hit = FALSE
    /\ net = FALSE
    /\ ret = NoPath
    /\ err = "none"
    /\ prev = NoCall

UrlIdle ==
    /\ geofabrik_urls = NoDirs
    /\ node_name = "none"
    /\ url_out = [kind |-> "none", url |-> NoPath]

CityIdle ==
    /\ city_df = <<>>
    /\ country_df = <<>>
    /\ req = NoRequest
    /\ cpc = "idle"
    /\ choices = <<>>
    /\ user_input = <<>>
    /\ asked = FALSE
    /\ result = NoResult

NoText == <<"None">>
NoPolygons == [kind |-> "none", polygons |-> <<>>]

ParseIdle ==
    /\ data = NoText
    /\ polygons = NoPolygons

NoTree == <<>>
NoMapping == [kind |-> "none", only_leaf |-> FALSE, items |-> <<>>]
NoMatch == [kind |-> "none", names |-> <<>>]

RegionsIdle ==
    /\ regions = NoTree
    /\ all_polygons = NoMapping
    /\ region_polygons = NoMapping
    /\ matched = NoMatch

FindIdle ==
    /\ lonlat = <<>>
    /\ fpc = "idle"
    /\ freq = NoRequest
    /\ sorted_distances = <<>>
    /\ region_node = 0
    /\ ferr = "none"

NoSite == <<>>
NoFile == <<"None">>

CrawlIdle ==
    /\ site = NoSite
    /\ tpc = "idle"
    /\ region_tree = NoTree
    /\ region_urls = <<>>
    /\ gets = <<>>

TreeIdle ==
    /\ built = NoTree
    /\ geofabrik_tree_nw = NoFile
    /\ loaded = NoTree

BuildIdle == CrawlIdle /\ TreeIdle

NoOther == [pc |-> "idle", url |-> <<>>, fname |-> <<>>]
NoCaller == [pc |-> "idle", caller |-> "none", result |-> "none"]

RaceIdle == second = NoOther

RequestIdle ==
    /\ rq = NoCaller
    /\ wire = <<>>

NoPlace == [kind |-> "none", city |-> <<>>, country |-> <<>>, rows |-> <<>>, asked |-> FALSE]

PosterIdle ==
    /\ cache = <<>>
    /\ geo = NoPlace

CountryIdle ==
    /\ generators = <<>>
    /\ listed = <<>>

MoreIdle ==
    /\ RaceIdle
    /\ RequestIdle
    /\ ppc = 0
    /\ rerun = [kind |-> "none"]
    /\ PosterIdle
    /\ CountryIdle

AfterCityIdle == ParseIdle /\ RegionsIdle /\ FindIdle /\ BuildIdle /\ MoreIdle

Init == FetchIdle /\ UrlIdle /\ CityIdle /\ AfterCityIdle

Next ==
    \/ Call
    \/ DownloadOk
    \/ DownloadFail
    \/ Mkdir
    \/ OpenZip
    \/ Extract
    \/ Remove
    \/ Return

Spec == Init /\ [][Next]_vars

(***************************************************************************)
(* Claims about the shapefile cache, checked under Spec                    *)
(***************************************************************************)

\* the directory the cache-hit check of a call of url looks for
CheckedDir(url) == Join(shp_path, Stem(LastComponent(url, "/")))

\* C1: for a URL whose extraction directory does not exist, the directory
\* a successful call creates and returns is the directory the cache-hit
\* check of the next call looks for, so that of two successive successful
\* calls the second returns the same path without network I/O.
C1_FetchTwiceSameDirectory ==
    /\ (pc = "done" /\ ~hit) => ret = CheckedDir(shp_url)
    /\ (pc = "done" /\ prev.outcome = "done" /\ prev.url = shp_url /\ ~prev.hit)
          => (ret = prev.ret /\ ~net)

\* C2: between calls, every extraction directory of the cache root holds a
\* completed extraction, and a directory returned as a cache hit does too.
C2_DirectoryProvesExtraction ==
    /\ pc = "idle" => \A d \in DOMAIN dirs : dirs[d].state = "complete"
    /\ (pc = "done" /\ hit) => dirs[ret].state = "complete"

\* C3: a call made while the extraction directory of its URL exists
\* returns that directory at once: no download, nothing created, changed
\* or deleted under the cache root.
C3_CacheHitTouchesNothing ==
    [][\A url \in ShpUrls :
          (pc = "idle" /\ pc' # "idle" /\ shp_url' = url
              /\ CheckedDir(url) \in DOMAIN dirs)
          => /\ pc' = "done"
             /\ ret' = CheckedDir(url)
             /\ ~net'
             /\ dirs' = dirs
             /\ zips' = zips]_vars

C3_Witness ==
    /\ pc = "done"
    /\ hit
    /\ ~net
    /\ ret = CheckedDir(shp_url)
    /\ ret \in DOMAIN dirs

\* C4: a directory a call returns with a completed extraction in it was
\* populated from the archive of the URL the call was given.
C4_DirectoryOfOwnArchive ==
    (pc = "done" /\ dirs[ret].state = "complete") => dirs[ret].src = shp_url

(***************************************************************************)
(* The URL index: _extract_shp_url                                         *)
(***************************************************************************)

\* most URLs one node's entry of the index holds
MaxUrls == 2

\* Links found on region pages: two shapefile archives, a boundary polygon
\* and the checksum of an archive
UrlPoly == <<"h","/","e","/","g",".","p","o","l","y">>
UrlMd5 == UrlEuropeG \o <<".","m","d","5">>
IndexUrls == {UrlEuropeG, UrlEuropeM, UrlPoly, UrlMd5}
NodeNames == {"Georgia", "Malta"}

\* an entry is created by its first append: no entry is empty
UrlLists == UNION {[1..k -> IndexUrls] : k \in 1..MaxUrls}
UrlIndexes == UNION {[names -> UrlLists] : names \in SUBSET NodeNames}

NoUrlOut == [kind |-> "none", url |-> NoPath]

\* lines 314-321: the first URL of the node's entry that qualifies; the
\* subscript raises KeyError, an entry without such a URL ValueError
_extract_shp_url(name) ==
    IF name \notin DOMAIN geofabrik_urls
    THEN [kind |-> "KeyError", url |-> NoPath]
    ELSE LET urls == geofabrik_urls[name]
             valid == {i \in 1..Len(urls) : is_valid_download_url(urls[i])}
         IN  IF valid = {}
             THEN [kind |-> "ValueError", url |-> NoPath]
             ELSE [kind |-> "url",
                   url |-> urls[CHOOSE i \in valid : \A j \in valid : i <= j]]

NotUrl == <<dirs, zips, pc, shp_url, fname, hit, net, ret, err, prev,
            city_df, country_df, req, cpc, choices, user_input, asked, result,
            AfterCity>>

ExtractShpUrl ==
    /\ UNCHANGED NotUrl
    /\ UNCHANGED geofabrik_urls
    /\ \E name \in NodeNames :
          /\ node_name' = name
          /\ url_out' = _extract_shp_url(name)

InitUrl ==
    /\ FetchIdle
    /\ CityIdle
    /\ AfterCityIdle
    /\ geofabrik_urls \in UrlIndexes
    /\ node_name = "none"
    /\ url_out = NoUrlOut

NextUrl == ExtractShpUrl

SpecUrl == InitUrl /\ [][NextUrl]_vars

\* C5: the URL returned for a node is the first URL of the node's index
\* entry that ends with latest-free.shp.zip; a node whose entry holds no
\* such URL, or that has no entry, gets an error and no URL.
C5_ResolveDownloadUrl ==
    node_name # "none" =>
        LET has == node_name \in DOMAIN geofabrik_urls
            urls == IF has THEN geofabrik_urls[node_name] ELSE <<>>
            ok(i) == EndsWith(urls[i], GEOFABRIK_HREF_ATTRIBUTE_END)
        IN  IF \E i \in 1..Len(urls) : ok(i)
            THEN /\ url_out.kind = "url"
                 /\ \E i \in 1..Len(urls) :
                       /\ urls[i] = url_out.url
                       /\ ok(i)
                       /\ \A j \in 1..(i - 1) : ~ok(j)
            ELSE /\ url_out.kind \in {"KeyError", "ValueError"}
                 /\ url_out.url = NoPath

\* a qualifying URL is returned from behind one that does not qualify
C5_Witness ==
    /\ node_name \in DOMAIN geofabrik_urls
    /\ url_out.kind = "url"
    /\ Len(geofabrik_urls[node_name]) = 2
    /\ geofabrik_urls[node_name][1] = UrlMd5
    /\ url_out.url = geofabrik_urls[node_name][2]

(***************************************************************************)
(* The gazetteer: resolve_city and _interactive_resolve                    *)
(***************************************************************************)

\* most rows of the gazetteer table and of the Country table
MaxRows == 3
MaxCountries == 2

\* str.lower, one character
LowerChar(c) ==
    CASE c = "A" -> "a"
      [] c = "B" -> "b"
      [] c = "F" -> "f"
      [] c = "E" -> "e"
      [] c = "Á" -> "á"
      [] OTHER -> c

\* unidecode, one character: the ASCII transliteration
UnidecodeChar(c) ==
    CASE c = "á" -> <<"a">>
      [] c = "Á" -> <<"A">>
      [] c = "ß" -> <<"s", "s">>
      [] OTHER -> <<c>>

RECURSIVE unidecode(_)
unidecode(s) ==
    IF s = <<>> THEN <<>> ELSE UnidecodeChar(Head(s)) \o unidecode(Tail(s))

lower(s) == [i \in 1..Len(s) |-> LowerChar(s[i])]

\* The tables the run has loaded. A gazetteer row is its asciiname, country
\* code and population; a row's position in the table is its identity.
CityRow(asciiname, cc, population) ==
    [asciiname |-> asciiname, cc |-> cc, population |-> population]
CityRows == {CityRow(<<"A">>, "X", 1), CityRow(<<"A">>, "Y", 2), CityRow(<<"b">>, "X", 2)}
CityTables == UNION {[1..k -> CityRows] : k \in 0..MaxRows}
CountryRows == {[Code |-> "X", Name |-> <<"F">>], [Code |-> "Y", Name |-> <<"F">>],
                [Code |-> "Y", Name |-> <<"e">>]}
CountryTables == UNION {[1..k -> CountryRows] : k \in 0..MaxCountries}

\* The arguments of a call
None == <<"None">>
CityArgs == {<<"á">>, <<"c">>}
CountryArgs == {None, <<"f">>, <<"z">>}
Requests == [city : CityArgs, country : CountryArgs, interactive : BOOLEAN,
             element_if_one : BOOLEAN, first : BOOLEAN]

\* lines 193-195: the rows of the Country table named country, in table order
CountryMatches(country) ==
    {i \in 1..Len(country_df) : lower(country_df[i].Name) = lower(country)}

\* the last of the rows instead of the first
Last(S) == CHOOSE i \in S : \A j \in S : j <= i

First(S) == CHOOSE i \in S : \A j \in S : i <= j

\* lines 187-199: the rows of the gazetteer that are candidates; the
\* country, when given, is one the Country table has
Candidates(city, country) ==
    IF country = None
    THEN {i \in 1..Len(city_df) : lower(city_df[i].asciiname) = lower(unidecode(city))}
    ELSE LET country_code == country_df[First(CountryMatches(country))].Code
         IN  {i \in 1..Len(city_df) :
                 /\ lower(city_df[i].asciiname) = lower(unidecode(city))
                 /\ city_df[i].cc = country_code}

\* the orders of the rows of S, as sequences without repetition
Orders(S) ==
    {f \in [1..Cardinality(S) -> S] : \A i, j \in 1..Cardinality(S) : i # j => f[i] # f[j]}

\* the sort with ascending left at its default
SortedAscending(S) ==
    {f \in Orders(S) : \A i, j \in 1..Cardinality(S) :
        i < j => city_df[f[i]].population <= city_df[f[j]].population}

\* line 200: sort_values(by="population", ascending=False) with the default
\* kind, quicksort, which is not a stable sort: rows of equal population
\* come out in an order the build decides
SortValues(S) ==
    {f \in Orders(S) : \A i, j \in 1..Cardinality(S) :
        i < j => city_df[f[i]].population >= city_df[f[j]].population}

\* lines 156-165: the list printed before the prompt names the country of
\* every candidate; .iloc[0] of a candidate whose code the Country table
\* lacks raises IndexError
CanList(ranked) ==
    \A k \in 1..Len(ranked) :
        \E i \in 1..Len(country_df) : country_df[i].Code = city_df[ranked[k]].cc

Series(row) == [kind |-> "Series", rows |-> <<row>>]
DataFrame(ranked) == [kind |-> "DataFrame", rows |-> ranked]
Raised(exc) == [kind |-> exc, rows |-> <<>>]

\* a policy that hands a lone candidate over as the table it came in
ReturnOfTable(r, ranked) ==
    IF Len(ranked) = 0 THEN [to |-> "returned", result |-> [kind |-> "None", rows |-> <<>>]]
    ELSE IF Len(ranked) > 1 /\ r.interactive
    THEN IF CanList(ranked)
         THEN [to |-> "prompt", result |-> NoResult]
         ELSE [to |-> "raised", result |-> Raised("IndexError")]
    ELSE IF r.first
    THEN [to |-> "returned", result |-> Series(ranked[1])]
    ELSE [to |-> "returned", result |-> DataFrame(ranked)]

\* lines 201-207: where the call goes with its ranked candidates
ReturnOf(r, ranked) ==
    IF Len(ranked) = 0 THEN [to |-> "returned", result |-> [kind |-> "None", rows |-> <<>>]]
    ELSE IF Len(ranked) > 1 /\ r.interactive
    THEN IF CanList(ranked)
         THEN [to |-> "prompt", result |-> NoResult]
         ELSE [to |-> "raised", result |-> Raised("IndexError")]
    ELSE IF (Len(ranked) = 1 /\ r.element_if_one) \/ r.first
    THEN [to |-> "returned", result |-> Series(ranked[1])]
    ELSE [to |-> "returned", result |-> DataFrame(ranked)]

NotCity == <<dirs, zips, pc, shp_url, fname, hit, net, ret, err, prev,
             geofabrik_urls, node_name, url_out, AfterCity>>

\* lines 178-207 and 155-165: a call of resolve_city with arguments its
\* lru_cache does not hold, up to its return, its exception or the first
\* input() of the prompt loop
resolve_city(r) ==
    /\ cpc = "idle"
    /\ req' = r
    /\ user_input' = <<>>
    /\ UNCHANGED <<city_df, country_df>>
    /\ IF r.country # None /\ CountryMatches(r.country) = {}
       THEN /\ cpc' = "raised"
            /\ result' = Raised("IndexError")
            /\ choices' = <<>>
            /\ asked' = FALSE
       ELSE \E ranked \in SortValues(Candidates(r.city, r.country)) :
               /\ choices' = ranked
               /\ cpc' = ReturnOf(r, ranked).to
               /\ result' = ReturnOf(r, ranked).result
               /\ asked' = (ReturnOf(r, ranked).to = "prompt")

ResolveCity ==
    /\ UNCHANGED NotCity
    /\ \E r \in Requests : resolve_city(r)

\* The lines a user types at the prompt
Inputs == {<<>>, <<"1">>, <<"2">>, <<"3">>, <<"0">>, <<"-", "1">>, <<"1", "2">>,
           <<"a">>, <<" ", "2">>, <<"2", " ", "1">>}

Digits == <<"0", "1", "2", "3", "4", "5", "6", "7", "8", "9">>
IsDigit(c) == \E d \in 1..10 : Digits[d] = c
DigitValue(c) == (CHOOSE d \in 1..10 : Digits[d] = c) - 1

\* str.strip of blanks
Strip(s) ==
    LET at == {i \in 1..Len(s) : s[i] # " "}
    IN  IF at = {} THEN <<>>
        ELSE SubSeq(s, CHOOSE i \in at : \A j \in at : i <= j,
                       CHOOSE i \in at : \A j \in at : j <= i)

RECURSIVE DecimalValue(_, _)
DecimalValue(body, acc) ==
    IF body = <<>> THEN acc
    ELSE IF Head(body) = "_" THEN DecimalValue(Tail(body), acc)
    ELSE DecimalValue(Tail(body), 10 * acc + DigitValue(Head(body)))

\* int(user_input): blanks around, an optional sign, then decimal digits,
\* single underscores allowed between digits; anything else is ValueError
ParseInt(s) ==
    LET t == Strip(s)
        signed == t # <<>> /\ t[1] \in {"+", "-"}
        body == IF signed THEN Tail(t) ELSE t
        valid ==
            /\ body # <<>>
            /\ \A i \in 1..Len(body) :
                  \/ IsDigit(body[i])
                  \/ /\ body[i] = "_"
                     /\ 1 < i /\ i < Len(body)
                     /\ IsDigit(body[i - 1]) /\ IsDigit(body[i + 1])
    IN  [ok |-> valid,
         val |-> IF ~valid THEN 0
                 ELSE IF signed /\ t[1] = "-" THEN 0 - DecimalValue(body, 0)
                 ELSE DecimalValue(body, 0)]

\* the choice of a 0-based index
ChoiceOfZeroBased(line, k) ==
    IF line = <<>> THEN 1
    ELSE IF ParseInt(line).ok /\ ParseInt(line).val \in 0..(k - 1) THEN ParseInt(line).val + 1
    ELSE 0

\* lines 167-175: the key of choices (1..k) one line selects, 0 when the
\* loop goes round again
ChoiceOf(line, k) ==
    IF line = <<>> THEN 1
    ELSE IF ParseInt(line).ok /\ ParseInt(line).val \in 1..k THEN ParseInt(line).val
    ELSE 0

\* line 167: input() returns the line the user typed
ReadLine ==
    /\ UNCHANGED NotCity
    /\ cpc = "prompt"
    /\ cpc' = "read"
    /\ user_input' \in Inputs
    /\ UNCHANGED <<city_df, country_df, req, choices, asked, result>>

\* lines 168-175: the line selects a candidate, or the loop goes round
\* again and calls input() anew
Decide ==
    /\ UNCHANGED NotCity
    /\ cpc = "read"
    /\ UNCHANGED <<city_df, country_df, req, choices, asked>>
    /\ IF ChoiceOf(user_input, Len(choices)) # 0
       THEN /\ cpc' = "returned"
            /\ result' = Series(choices[ChoiceOf(user_input, Len(choices))])
            /\ UNCHANGED user_input
       ELSE /\ cpc' = "prompt"
            /\ user_input' = <<>>
            /\ UNCHANGED result

\* the caller has the result or the exception
ReturnCity ==
    /\ UNCHANGED NotCity
    /\ cpc \in {"returned", "raised"}
    /\ cpc' = "idle"
    /\ req' = NoRequest
    /\ choices' = <<>>
    /\ user_input' = <<>>
    /\ asked' = FALSE
    /\ result' = NoResult
    /\ UNCHANGED <<city_df, country_df>>

InitCity ==
    /\ FetchIdle
    /\ UrlIdle
    /\ AfterCityIdle
    /\ city_df \in CityTables
    /\ country_df \in CountryTables
    /\ req = NoRequest
    /\ cpc = "idle"
    /\ choices = <<>>
    /\ user_input = <<>>
    /\ asked = FALSE
    /\ result = NoResult

NextCity ==
    \/ ResolveCity
    \/ ReadLine
    \/ Decide
    \/ ReturnCity

SpecCity == InitCity /\ [][NextCity]_vars

(***************************************************************************)
(* Claims about resolve_city, checked under SpecCity                       *)
(***************************************************************************)

Called == req # NoRequest

\* the gazetteer rows that match a request: the name, and the code of the
\* country when one is given (a country the Country table lacks has no code
\* and matches no row)
Matching(r) ==
    {i \in 1..Len(city_df) :
        /\ lower(city_df[i].asciiname) = lower(unidecode(r.city))
        /\ \/ r.country = None
           \/ \E c \in 1..Len(country_df) :
                 /\ lower(country_df[c].Name) = lower(r.country)
                 /\ \A d \in 1..(c - 1) : lower(country_df[d].Name) # lower(r.country)
                 /\ country_df[c].Code = city_df[i].cc}

Descending(rows) ==
    \A i, j \in 1..Len(rows) :
        i < j => city_df[rows[i]].population >= city_df[rows[j]].population

\* C6: a call that no gazetteer row matches returns None and raises
\* nothing, whatever the country, interactive and first.
C6_NoMatchReturnsNone ==
    (Called /\ Matching(req) = {}) => (cpc = "returned" /\ result.kind = "None")

\* C7: with first=True and a matching row, the call returns the rank-1
\* row and never prompts, whatever interactive and the number of matches.
C7_FirstShortCircuits ==
    (Called /\ req.first /\ Matching(req) # {}) =>
        /\ cpc \notin {"prompt", "read"}
        /\ ~asked
        /\ cpc = "returned" =>
              /\ result.kind = "Series"
              /\ \A i \in Matching(req) :
                    city_df[result.rows[1]].population >= city_df[i].population

\* C8: with several matching rows, interactive=False and first=False, the
\* call returns every matching row and no other, each once, population
\* descending, and never prompts.
C8_NonInteractiveReturnsAll ==
    (Called /\ ~req.interactive /\ ~req.first /\ Cardinality(Matching(req)) > 1) =>
        /\ cpc = "returned"
        /\ ~asked
        /\ result.kind = "DataFrame"
        /\ Len(result.rows) = Cardinality(Matching(req))
        /\ {result.rows[i] : i \in 1..Len(result.rows)} = Matching(req)
        /\ Descending(result.rows)

\* two of three rows match and come back in the reverse of table order
C8_Witness ==
    /\ Called /\ ~req.interactive /\ ~req.first
    /\ cpc = "returned"
    /\ Len(city_df) = 3
    /\ result = DataFrame(<<2, 1>>)

C10_PromptLoop ==
    [][/\ cpc = "prompt" => cpc' = "read"
       /\ cpc' = "prompt" => (cpc \in {"idle", "read"} /\ Len(choices') > 1 /\ req'.interactive)
       /\ cpc = "read" =>
            LET k == Len(choices)
                n == ParseInt(user_input)
            IN  /\ IF user_input = <<>>
                   THEN cpc' = "returned" /\ result' = Series(choices[1])
                   ELSE IF n.ok /\ 1 <= n.val /\ n.val <= k
                   THEN cpc' = "returned" /\ result' = Series(choices[n.val])
                   ELSE cpc' = "prompt" /\ result' = NoResult
                /\ cpc' = "returned" =>
                      \E i \in 1..k : result' = Series(choices[i])]_vars

\* the second of the listed candidates is chosen by its number
C10_Witness ==
    /\ Called /\ asked
    /\ cpc = "returned"
    /\ user_input = <<"2">>
    /\ Len(choices) > 1
    /\ result = Series(choices[2])

\* C12 as stated: with exactly one matching gazetteer row the call returns
\* that row as a single row, not as a one-row table, and never prompts,
\* whatever interactive (and whatever its other arguments).
C12_OneMatchSingleRow ==
    (Called /\ Cardinality(Matching(req)) = 1) =>
        /\ cpc = "returned"
        /\ ~asked
        /\ \A i \in Matching(req) : result = Series(i)

\* C12, for the calls that ask for a single row (element_if_one left at
\* True, or first=True): with exactly one matching gazetteer row the call
\* returns that row as a single row and never prompts, whatever interactive.
C12_OneMatchSingleRowIfAsked ==
    (Called /\ Cardinality(Matching(req)) = 1 /\ (req.element_if_one \/ req.first)) =>
        /\ cpc = "returned"
        /\ ~asked
        /\ \A i \in Matching(req) : result = Series(i)

\* an interactive call returns the one row of three that matches
C12_Witness ==
    /\ Called /\ req.interactive /\ req.element_if_one /\ ~req.first
    /\ cpc = "returned"
    /\ Len(city_df) = 3
    /\ Matching(req) = {3}
    /\ result = Series(3)

\* C13: with a country the Country table has, the code is that of the
\* first Country row of that name, compared case-insensitively, and the
\* candidates are the gazetteer rows of the ASCII-folded, lower-cased city
\* name and of that code, each once; without a country, the rows of the
\* name alone.
C13_CandidatesByNameAndCode ==
    (Called /\ (req.country = None
                  \/ \E c \in 1..Len(country_df) : lower(country_df[c].Name) = lower(req.country))) =>
        LET named == {i \in 1..Len(city_df) :
                        lower(city_df[i].asciiname) = lower(unidecode(req.city))}
            rows == {c \in 1..Len(country_df) : lower(country_df[c].Name) = lower(req.country)}
            code == country_df[CHOOSE c \in rows : \A d \in rows : c <= d].Code
            expected == IF req.country = None THEN named
                        ELSE {i \in named : city_df[i].cc = code}
        IN  /\ {choices[k] : k \in 1..Len(choices)} = expected
            /\ Len(choices) = Cardinality(expected)

\* two Country rows carry the name, with different codes, and a gazetteer
\* row of the name and of the second code is no candidate
C13_Witness ==
    /\ Called /\ req.country # None
    /\ Len(country_df) = 2
    /\ lower(country_df[1].Name) = lower(req.country)
    /\ lower(country_df[2].Name) = lower(req.country)
    /\ country_df[1].Code # country_df[2].Code
    /\ Len(choices) = 1
    /\ city_df[choices[1]].cc = country_df[1].Code
    /\ \E i \in 1..Len(city_df) :
          /\ lower(city_df[i].asciiname) = lower(unidecode(req.city))
          /\ city_df[i].cc = country_df[2].Code

(***************************************************************************)
(* Polygon texts: _parse_polygons                                          *)
(***************************************************************************)

\* most lines of a polygon text
MaxLines == 4

\* "_".join(lines)
RECURSIVE JoinLines(_)
JoinLines(lines) ==
    IF lines = <<>> THEN <<>>
    ELSE IF Len(lines) = 1 THEN lines[1]
    ELSE lines[1] \o <<"_">> \o JoinLines(Tail(lines))

\* The lines of the texts: the END marker, a label, a counter, three
\* coordinates written as whole numbers (one blank in front, one with two
\* blanks between its numbers) and a coordinate line with a token that is
\* no number
END == <<"E", "N", "D">>
TextLines == {END, <<"a", "-", "b">>, <<"1", "2">>,
              <<"0", " ", "0">>, <<" ", "0", " ", "2">>, <<"2", " ", " ", "2">>,
              <<"0", " ", "x">>}
PolygonTexts == {JoinLines(lines) : lines \in UNION {[1..n -> TextLines] : n \in 0..MaxLines}}

\* s.split(sep) for a separator of one character: the pieces of s from
\* position from on, the piece in hand starting at position start
RECURSIVE SplitFrom(_, _, _, _)
SplitFrom(s, sep, start, from) ==
    IF from > Len(s) THEN <<SubSeq(s, start, Len(s))>>
    ELSE IF s[from] = sep
    THEN <<SubSeq(s, start, from - 1)>> \o SplitFrom(s, sep, from + 1, from + 1)
    ELSE SplitFrom(s, sep, start, from + 1)
Split(s, sep) == SplitFrom(s, sep, 1, 1)

NotEmpty(t) == t # <<>>
NotHyphen(c) == c # "-"

\* line.split(): the runs of characters between blanks
Tokens(line) == SelectSeq(Split(line, " "), NotEmpty)

\* str.isalpha and str.isdigit: not empty, and every character a letter
\* (a digit); the letters are those of the texts
IsAlpha(s) == s # <<>> /\ \A i \in 1..Len(s) : s[i] \in {"a", "b", "x", "E", "N", "D"}
IsDigitString(s) == s # <<>> /\ \A i \in 1..Len(s) : IsDigit(s[i])

\* float(token) of a token written without point or exponent, as the
\* numbers of the texts are: what int() reads, anything else ValueError
Float(token) == ParseInt(token)

\* shapely's Polygon(shell): a shell of fewer than three coordinates, or of
\* coordinates that are not all pairs or all triples, raises ValueError
PolygonRaises(shell) ==
    \/ Len(shell) < 3
    \/ \E i \in 1..Len(shell) : Len(shell[i]) \notin {2, 3}
    \/ \E i, j \in 1..Len(shell) : Len(shell[i]) # Len(shell[j])

ValueError == [kind |-> "ValueError", polygons |-> <<>>]

\* the element of a set of one element; the variables bound in the set
\* hold values, which are computed once
Value(S) == CHOOSE r \in S : TRUE

\* list(map(float, tokens)), each float with its ValueError
RECURSIVE Floats(_)
Floats(tokens) ==
    IF tokens = <<>> THEN <<>> ELSE <<Float(Head(tokens))>> \o Floats(Tail(tokens))

\* lines 73-86: the loop over the lines, with polygons and current_polygon
RECURSIVE ParseLines(_, _, _)
ParseLines(lines, polygons_, current_polygon) ==
    IF lines = <<>> THEN [kind |-> "list", polygons |-> polygons_]
    ELSE Value({
        IF line = END
        THEN IF current_polygon # <<>>
             THEN IF PolygonRaises(current_polygon) THEN ValueError
                  ELSE Value({ParseLines(rest, appended, <<>>) :
                                 appended \in {Append(polygons_, current_polygon)}})
             ELSE ParseLines(rest, polygons_, <<>>)
        ELSE IF IsAlpha(SelectSeq(line, NotHyphen))
        THEN ParseLines(rest, polygons_, current_polygon)
        ELSE IF IsDigitString(line)
        THEN ParseLines(rest, polygons_, current_polygon)
        ELSE Value({
            IF \E i \in 1..Len(coords) : ~coords[i].ok THEN ValueError
            ELSE Value({ParseLines(rest, polygons_, appended) :
                           appended \in {Append(current_polygon,
                                                [i \in 1..Len(coords) |-> coords[i].val])}})
            : coords \in {Floats(Tokens(line))}})
        : line \in {Strip(Head(lines))}, rest \in {Tail(lines)}})

\* lines 69-86
_parse_polygons(text) == ParseLines(Split(Strip(text), "_"), <<>>, <<>>)

NotParse == <<dirs, zips, pc, shp_url, fname, hit, net, ret, err, prev,
              geofabrik_urls, node_name, url_out,
              city_df, country_df, req, cpc, choices, user_input, asked, result,
              RegionVars, FindVars, BuildVars, MoreVars>>

ParsePolygons ==
    /\ UNCHANGED NotParse
    /\ polygons = NoPolygons
    /\ polygons' = _parse_polygons(data)
    /\ UNCHANGED data

InitParse ==
    /\ FetchIdle
    /\ UrlIdle
    /\ CityIdle
    /\ RegionsIdle
    /\ FindIdle
    /\ BuildIdle
    /\ MoreIdle
    /\ data \in PolygonTexts
    /\ polygons = NoPolygons

NextParse == ParsePolygons

SpecParse == InitParse /\ [][NextParse]_vars

(***************************************************************************)
(* Claims about _parse_polygons, checked under SpecParse                   *)
(***************************************************************************)

\* the lines of a text, as the claim sorts them
LinesOf(text) == [i \in 1..Len(Split(Strip(text), "_")) |-> Strip(Split(Strip(text), "_")[i])]
IsEnd(line) == line = END
IsLabel(line) == ~IsEnd(line) /\ line # <<>> /\ \A i \in 1..Len(line) : line[i] \notin {" "} \cup {Digits[d] : d \in 1..10}
IsCounter(line) == line # <<>> /\ \A i \in 1..Len(line) : \E d \in 1..10 : line[i] = Digits[d]
IsCoordinate(line) == ~IsEnd(line) /\ ~IsLabel(line) /\ ~IsCounter(line)

\* the coordinate lines of the block that the END marker of line e closes
BlockOf(lines, e) ==
    LET before == {k \in 1..(e - 1) : IsEnd(lines[k])}
        from == IF before = {} THEN 1 ELSE (CHOOSE k \in before : \A m \in before : m <= k) + 1
    IN  SelectSeq([i \in 1..(e - from) |-> lines[from + i - 1]], IsCoordinate)

\* the numbers of a coordinate line, read digit by digit
NumbersOf(line) ==
    LET tokens == Tokens(line)
    IN  [i \in 1..Len(tokens) |-> DecimalValue(tokens[i], 0)]

\* one polygon per END marker that closes a block with a coordinate in it
RECURSIVE Closed(_, _)
Closed(lines, e) ==
    IF e > Len(lines) THEN <<>>
    ELSE IF IsEnd(lines[e]) /\ BlockOf(lines, e) # <<>>
    THEN <<[i \in 1..Len(BlockOf(lines, e)) |-> NumbersOf(BlockOf(lines, e)[i])]>>
             \o Closed(lines, e + 1)
    ELSE Closed(lines, e + 1)

\* every token of every coordinate line is a number
Numeric(text) ==
    \A i \in 1..Len(LinesOf(text)) :
        IsCoordinate(LinesOf(text)[i]) =>
            \A t \in 1..Len(Tokens(LinesOf(text)[i])) :
                \A c \in 1..Len(Tokens(LinesOf(text)[i])[t]) : IsDigit(Tokens(LinesOf(text)[i])[t][c])

\* C14: the parse of a text whose coordinate lines hold numbers returns one
\* polygon per END marker that closes a block with a coordinate in it, in
\* text order, each with the coordinates of its block in their order;
\* labels, counters, END markers after an empty block and coordinates after
\* the last END marker add nothing.
C14_OnePolygonPerClosedBlock ==
    (polygons # NoPolygons /\ Numeric(data)) =>
        /\ polygons.kind = "list"
        /\ polygons.polygons = Closed(LinesOf(data), 1)

(***************************************************************************)
(* The region tree and its polygons                                        *)
(***************************************************************************)

\* most nodes of a region tree
MaxNodes == 3

\* The polygon texts of the nodes, as the tree file holds them: a label, a
\* counter, the coordinates of a section, END, and END again at the end.
\* Square A has the corners (0,0) and (2,2), square B (4,0) and (6,2); the
\* last text has a section whose counter is written !2
SectionA == <<<<"0", " ", "0">>,
             <<"0", " ", "2">>,
             <<"2", " ", "2">>,
             <<"2", " ", "0">>, END>>
SectionB == <<<<"4", " ", "0">>,
             <<"4", " ", "2">>,
             <<"6", " ", "2">>,
             <<"6", " ", "0">>, END>>
TextA == JoinLines(<<<<"a">>, <<"1">>>> \o SectionA \o <<END>>)
TextB == JoinLines(<<<<"b">>, <<"1">>>> \o SectionB \o <<END>>)
TextAB == JoinLines(<<<<"a">>, <<"1">>>> \o SectionA \o <<<<"2">>>> \o SectionB \o <<END>>)
TextBad == JoinLines(<<<<"a">>, <<"1">>>> \o SectionA \o <<<<"!", "2">>>> \o SectionB \o <<END>>)

\* A node of the tree: its name, its polygon feature (NoText when it has
\* none) and its children, in order. The tree is a sequence of nodes; node
\* 1 is the root, whose name the tree file does not hold.
RegionNames == {<<"F">>, <<"e">>}
Parents(n) == {up \in [2..n -> 1..n] : \A i \in 2..n : up[i] < i}
ChildrenOf(up, n, k) == SelectSeq([i \in 1..n |-> i], LAMBDA i : i > 1 /\ up[i] = k)
TreesOf(n, texts) ==
    {[k \in 1..n |-> [name |-> IF k = 1 THEN <<>> ELSE names[k],
                      polygon |-> text[k],
                      children |-> ChildrenOf(up, n, k)]] :
        up \in Parents(n), names \in [2..n -> RegionNames], text \in [1..n -> texts]}
RegionTrees == UNION {TreesOf(n, {NoText, TextA, TextBad}) : n \in 1..MaxNodes}

\* ete3's traverse(), level order: the nodes of the subtree of node, each
\* before the nodes below it, siblings in order
RECURSIVE LevelOrder(_, _)
LevelOrder(tree, queue) ==
    IF queue = <<>> THEN <<>>
    ELSE <<Head(queue)>> \o LevelOrder(tree, Tail(queue) \o tree[Head(queue)].children)
traverse(tree, node) == IF tree = NoTree THEN <<>> ELSE LevelOrder(tree, <<node>>)

is_leaf(tree, node) == tree[node].children = <<>>

\* a lookup that lets the ValueError of the parse through
get_region_polygons_uncaught(node) ==
    IF node.polygon = NoText THEN [kind |-> "list", polygons |-> <<>>]
    ELSE Value({parsed : parsed \in {_parse_polygons(node.polygon)}})

\* data.py, lines 124-131: the polygons of a node
get_region_polygons(node) ==
    IF node.polygon = NoText THEN [kind |-> "list", polygons |-> <<>>]
    ELSE Value({IF parsed.kind = "ValueError" THEN [kind |-> "list", polygons |-> <<>>]
                ELSE parsed
                : parsed \in {_parse_polygons(node.polygon)}})

\* dict[key] = value: a new key goes last, a key the dict has keeps its place
DictSet(items, key, value) ==
    IF \E i \in 1..Len(items) : items[i].key = key
    THEN [i \in 1..Len(items) |->
             IF items[i].key = key THEN [key |-> key, value |-> value] ELSE items[i]]
    ELSE Append(items, [key |-> key, value |-> value])
DictGet(items, key) == items[CHOOSE i \in 1..Len(items) : items[i].key = key].value

\* data.py, lines 133-143: the loop over the nodes, keyed by node
RECURSIVE AllRegionPolygons(_, _, _, _)
AllRegionPolygons(tree, nodes, only_leaf, items) ==
    IF nodes = <<>> THEN [kind |-> "dict", only_leaf |-> only_leaf, items |-> items]
    ELSE IF only_leaf /\ ~is_leaf(tree, Head(nodes))
    THEN AllRegionPolygons(tree, Tail(nodes), only_leaf, items)
    ELSE Value({
        IF got.kind # "list"
        THEN [kind |-> got.kind, only_leaf |-> only_leaf, items |-> <<>>]
        ELSE Value({AllRegionPolygons(tree, rest, only_leaf, set) :
                       rest \in {Tail(nodes)},
                       set \in {DictSet(items, Head(nodes), got.polygons)}})
        : got \in {get_region_polygons(tree[Head(nodes)])}})

get_all_region_polygons(tree, only_leaf) ==
    AllRegionPolygons(tree, traverse(tree, 1), only_leaf, <<>>)

\* match_cities.py, lines 43-56: the same loop, keyed by node name
RECURSIVE PolygonsByName(_, _, _)
PolygonsByName(tree, nodes, items) ==
    IF nodes = <<>> THEN [kind |-> "dict", only_leaf |-> FALSE, items |-> items]
    ELSE Value({PolygonsByName(tree, rest, set) :
                   rest \in {Tail(nodes)},
                   set \in {DictSet(items, tree[Head(nodes)].name,
                                    get_region_polygons(tree[Head(nodes)]).polygons)}})

\* match_cities.py, lines 31-41: the names of the nodes of the subtree of
\* the first node named country
find_regions(tree, country) ==
    LET nodes == traverse(tree, 1)
        named == {i \in 1..Len(nodes) : tree[nodes[i]].name = country}
        node == nodes[CHOOSE i \in named : \A j \in named : i <= j]
    IN  IF named = {} THEN <<>>
        ELSE [i \in 1..Len(traverse(tree, node)) |-> tree[traverse(tree, node)[i]].name]

\* The points of the cities
Points == {<<1, 1>>, <<3, 1>>}

\* polygon.contains(point) for a polygon whose sides run along the axes, as
\* the squares of the texts: the point is inside, not on the boundary
is_point_in_polygon(point, polygon) ==
    /\ \E i, j \in 1..Len(polygon) : polygon[i][1] < point[1] /\ point[1] < polygon[j][1]
    /\ \E i, j \in 1..Len(polygon) : polygon[i][2] < point[2] /\ point[2] < polygon[j][2]

NotRegions == <<dirs, zips, pc, shp_url, fname, hit, net, ret, err, prev,
                geofabrik_urls, node_name, url_out,
                city_df, req, cpc, choices, user_input, asked, result, ParseVars,
                FindVars, BuildVars, MoreVars>>

\* data.py, lines 133-143, called by a program that imports the library
GetAllRegionPolygons ==
    /\ UNCHANGED NotRegions
    /\ region_polygons = NoMapping
    /\ all_polygons = NoMapping
    /\ \E only_leaf \in BOOLEAN : all_polygons' = get_all_region_polygons(regions, only_leaf)
    /\ UNCHANGED <<regions, country_df, region_polygons, matched>>

\* match_cities.py, line 76
RegionPolygonsByName ==
    /\ UNCHANGED NotRegions
    /\ all_polygons = NoMapping
    /\ region_polygons = NoMapping
    /\ region_polygons' = PolygonsByName(regions, traverse(regions, 1), <<>>)
    /\ UNCHANGED <<regions, country_df, all_polygons, matched>>

\* match_cities.py, lines 84-97: one turn of the loop over the cities, for
\* a city of country code cc at point
MatchCity ==
    /\ UNCHANGED NotRegions
    /\ region_polygons # NoMapping
    /\ UNCHANGED <<regions, country_df, all_polygons, region_polygons>>
    /\ \E cc \in {"X", "Y"}, point \in Points :
          LET rows == {i \in 1..Len(country_df) : country_df[i].Code = cc}
              country == country_df[First(rows)].Name
              InRegion(region) ==
                  \E k \in 1..Len(DictGet(region_polygons.items, region)) :
                      is_point_in_polygon(point, DictGet(region_polygons.items, region)[k])
          IN  IF rows = {}
              THEN matched' = [kind |-> "IndexError", names |-> <<>>]
              ELSE matched' = [kind |-> "list", point |-> point, country |-> country,
                               names |-> SelectSeq(find_regions(regions, country), InRegion)]

InitRegions ==
    /\ FetchIdle
    /\ UrlIdle
    /\ ParseIdle
    /\ FindIdle
    /\ BuildIdle
    /\ MoreIdle
    /\ city_df = <<>>
    /\ country_df \in {t \in CountryTables : Len(t) = 1 /\ t[1].Code = "X"}
    /\ req = NoRequest
    /\ cpc = "idle"
    /\ choices = <<>>
    /\ user_input = <<>>
    /\ asked = FALSE
    /\ result = NoResult
    /\ regions \in RegionTrees
    /\ all_polygons = NoMapping
    /\ region_polygons = NoMapping
    /\ matched = NoMatch

NextRegions ==
    \/ GetAllRegionPolygons
    \/ RegionPolygonsByName
    \/ MatchCity

SpecRegions == InitRegions /\ [][NextRegions]_vars

(***************************************************************************)
(* Claims about the polygons of the region tree, checked under SpecRegions *)
(***************************************************************************)

\* the polygons a node's own text describes: none without a text and none
\* for a text with a token that is no number
OwnPolygonsOf ==
    {<<text, IF text = NoText \/ ~Numeric(text) THEN <<>> ELSE Closed(LinesOf(text), 1)>> :
        text \in {NoText, TextA, TextB, TextAB, TextBad}}
OwnPolygons(node) == Value({p[2] : p \in {q \in OwnPolygonsOf : q[1] = node.polygon}})

\* the nodes a call with only_leaf visits, in traversal order
Visited(only_leaf) ==
    SelectSeq(traverse(regions, 1), LAMBDA n : ~only_leaf \/ regions[n].children = <<>>)

\* C15: a polygon text with a token that is no number never makes the
\* lookup of the polygons raise: its node gets the empty list, also when
\* polygons were parsed before the token, and every other node visited gets
\* the polygons of its own text.
C15_BadTextGivesNoPolygon ==
    /\ all_polygons # NoMapping =>
          /\ all_polygons.kind = "dict"
          /\ Len(all_polygons.items) = Len(Visited(all_polygons.only_leaf))
          /\ \A i \in 1..Len(all_polygons.items) :
                /\ all_polygons.items[i].key = Visited(all_polygons.only_leaf)[i]
                /\ all_polygons.items[i].value = OwnPolygons(regions[all_polygons.items[i].key])
    /\ region_polygons # NoMapping =>
          /\ region_polygons.kind = "dict"
          /\ \A n \in 1..Len(regions) :
                (\A m \in 1..Len(regions) :
                    regions[m].name = regions[n].name =>
                        First({i \in 1..Len(regions) : traverse(regions, 1)[i] = m})
                            <= First({i \in 1..Len(regions) : traverse(regions, 1)[i] = n})) =>
                    \E i \in 1..Len(region_polygons.items) :
                        /\ region_polygons.items[i].key = regions[n].name
                        /\ region_polygons.items[i].value = OwnPolygons(regions[n])

\* a node whose text has the token after a closed square gets no polygon,
\* a node visited after it gets its square
C15_Witness ==
    /\ all_polygons.kind = "dict"
    /\ Len(all_polygons.items) = 3
    /\ regions[all_polygons.items[2].key].polygon = TextBad
    /\ all_polygons.items[2].value = <<>>
    /\ regions[all_polygons.items[3].key].polygon = TextA
    /\ Len(all_polygons.items[3].value) = 1

\* C16: the search for a point under the node of a country returns the
\* nodes of that subtree of which a polygon of the node's own contains the
\* point, and no other, whatever the names of the nodes of the tree.
C16_ScopedContainment ==
    matched.kind = "list" =>
        LET nodes == traverse(regions, 1)
            named == {i \in 1..Len(nodes) : regions[nodes[i]].name = matched.country}
            root == nodes[CHOOSE i \in named : \A j \in named : i <= j]
            Holds(n) == \E k \in 1..Len(OwnPolygons(regions[n])) :
                            is_point_in_polygon(matched.point, OwnPolygons(regions[n])[k])
            found == IF named = {} THEN <<>> ELSE SelectSeq(traverse(regions, root), Holds)
        IN  matched.names = [i \in 1..Len(found) |-> regions[found[i]].name]

(***************************************************************************)
(* find_download_shp: from the city to the fetch of its region             *)
(***************************************************************************)

RECURSIVE SumTo(_, _)
SumTo(f, n) == IF n = 0 THEN 0 ELSE f[n] + SumTo(f, n - 1)

\* polygon.centroid of a polygon that encloses an area: the centroid of the
\* area of its shell (the divisions are exact for the squares of the texts)
centroid(shell) ==
    LET n == Len(shell)
        next(i) == shell[(i % n) + 1]
        cross == [i \in 1..n |-> shell[i][1] * next(i)[2] - next(i)[1] * shell[i][2]]
        area2 == SumTo(cross, n)
    IN  <<SumTo([i \in 1..n |-> (shell[i][1] + next(i)[1]) * cross[i]], n) \div (3 * area2),
          SumTo([i \in 1..n |-> (shell[i][2] + next(i)[2]) * cross[i]], n) \div (3 * area2)>>

\* lines 145-153: the centroids of the polygons of the nodes
RECURSIVE Centroids(_)
Centroids(polygon_lst) ==
    IF polygon_lst = <<>> THEN <<>>
    ELSE <<centroid(Head(polygon_lst))>> \o Centroids(Tail(polygon_lst))

RECURSIVE RegionCentroids(_)
RegionCentroids(items) ==
    IF items = <<>> THEN <<>>
    ELSE <<[key |-> Head(items).key, value |-> Centroids(Head(items).value)]>>
             \o RegionCentroids(Tail(items))

get_region_centroids(tree, only_leaf) ==
    Value({RegionCentroids(polygons_.items) :
              polygons_ \in {get_all_region_polygons(tree, only_leaf)}})

\* city_point.distance(region_centroid), squared: the order of the
\* distances is the order of their squares
distance(p, q) == (p[1] - q[1]) * (p[1] - q[1]) + (p[2] - q[2]) * (p[2] - q[2])

\* min() of a sequence that is not empty
Min(f) == CHOOSE x \in {f[i] : i \in 1..Len(f)} : \A i \in 1..Len(f) : x <= f[i]

\* lines 356-365: a node without centroids makes min() raise ValueError and
\* is passed over
RECURSIVE Distances(_, _)
Distances(items, city_point) ==
    IF items = <<>> THEN <<>>
    ELSE IF Head(items).value = <<>> THEN Distances(Tail(items), city_point)
    ELSE <<[node |-> Head(items).key,
            distance |-> Min([k \in 1..Len(Head(items).value) |->
                                 distance(city_point, Head(items).value[k])])]>>
             \o Distances(Tail(items), city_point)

\* a sort with reverse=True
RECURSIVE SortedReverse(_)
SortedReverse(distances) ==
    IF distances = <<>> THEN <<>>
    ELSE LET n == Len(distances)
             front == SortedReverse(SubSeq(distances, 1, n - 1))
             after == {i \in 1..Len(front) : front[i].distance < distances[n].distance}
             at == IF after = {} THEN Len(front) + 1
                   ELSE CHOOSE i \in after : \A j \in after : i <= j
         IN  SubSeq(front, 1, at - 1) \o <<distances[n]>> \o SubSeq(front, at, Len(front))

\* line 366: sorted(distances, key=distance): ascending, and stable
RECURSIVE Sorted(_)
Sorted(distances) ==
    IF distances = <<>> THEN <<>>
    ELSE LET n == Len(distances)
             front == Sorted(SubSeq(distances, 1, n - 1))
             after == {i \in 1..Len(front) : front[i].distance > distances[n].distance}
             at == IF after = {} THEN Len(front) + 1
                   ELSE CHOOSE i \in after : \A j \in after : i <= j
         IN  SubSeq(front, 1, at - 1) \o <<distances[n]>> \o SubSeq(front, at, Len(front))

FetchVars == <<dirs, zips, pc, shp_url, fname, hit, net, ret, err, prev>>
CityVars == <<city_df, country_df, req, cpc, choices, user_input, asked, result>>

\* line 345: resolve_city(city=city, country=country), its keywords at
\* their defaults
FindDownloadShp ==
    /\ fpc = "idle"
    /\ fpc' = "resolve"
    /\ \E city \in CityArgs, country \in CountryArgs, interactive \in BOOLEAN :
          /\ freq' = [city |-> city, country |-> country, interactive |-> interactive]
          /\ resolve_city([city |-> city, country |-> country, interactive |-> TRUE,
                           element_if_one |-> TRUE, first |-> FALSE])
    /\ UNCHANGED <<FetchVars, geofabrik_urls, node_name, url_out, ParseVars, RegionVars, BuildVars, MoreVars,
                   lonlat, sorted_distances, region_node, ferr>>

\* lines 372-373, for the node chosen
FetchRegion(node) ==
    /\ region_node' = node
    /\ IF _extract_shp_url(regions[node].name).kind = "url"
       THEN /\ fpc' = "fetch"
            /\ ferr' = "none"
            /\ _download_extract_shp(_extract_shp_url(regions[node].name).url)
       ELSE /\ fpc' = "raised"
            /\ ferr' = _extract_shp_url(regions[node].name).kind
            /\ UNCHANGED FetchVars

\* lines 346-373, from the return of resolve_city to the call of
\* _download_extract_shp or to the prompt of _interactive_region_choose
\* (lines 324-328, which list at most num_choices = 5 nodes)
FindRegion ==
    /\ fpc = "resolve"
    /\ cpc \in {"returned", "raised"}
    /\ UNCHANGED <<CityVars, geofabrik_urls, node_name, url_out, ParseVars, RegionVars, BuildVars, MoreVars,
                   lonlat, freq>>
    /\ IF cpc = "raised" \/ result.kind = "None"
       THEN /\ fpc' = "raised"
            /\ ferr' = IF cpc = "raised" THEN result.kind ELSE "ValueError"
            /\ UNCHANGED <<FetchVars, sorted_distances, region_node>>
       ELSE \E sorted \in {Sorted(Distances(get_region_centroids(regions, TRUE),
                                              lonlat[result.rows[1]]))} :
                /\ sorted_distances' = sorted
                /\ IF sorted = <<>>
                   THEN /\ fpc' = "raised"
                        /\ ferr' = "IndexError"
                        /\ UNCHANGED <<FetchVars, region_node>>
                   ELSE IF freq.interactive
                   THEN /\ fpc' = "region_prompt"
                        /\ UNCHANGED <<FetchVars, region_node, ferr>>
                   ELSE FetchRegion(sorted[1].node)

\* line 330: input() returns the line the user typed
RegionReadLine ==
    /\ fpc = "region_prompt"
    /\ fpc' = "region_read"
    /\ user_input' \in Inputs
    /\ UNCHANGED <<FetchVars, geofabrik_urls, node_name, url_out, ParseVars, RegionVars, BuildVars, MoreVars,
                   city_df, country_df, req, cpc, choices, asked, result,
                   lonlat, freq, sorted_distances, region_node, ferr>>

\* lines 331-338, then lines 372-373
RegionDecide ==
    /\ fpc = "region_read"
    /\ UNCHANGED <<geofabrik_urls, node_name, url_out, ParseVars, RegionVars, BuildVars, MoreVars,
                   city_df, country_df, req, cpc, choices, asked, result,
                   lonlat, freq, sorted_distances>>
    /\ LET k == IF Len(sorted_distances) < 5 THEN Len(sorted_distances) ELSE 5
       IN  IF ChoiceOf(user_input, k) # 0
           THEN /\ FetchRegion(sorted_distances[ChoiceOf(user_input, k)].node)
                /\ UNCHANGED user_input
           ELSE /\ fpc' = "region_prompt"
                /\ user_input' = <<>>
                /\ UNCHANGED <<FetchVars, region_node, ferr>>

\* line 373: _download_extract_shp returns or raises
FindReturn ==
    /\ fpc = "fetch"
    /\ pc \in {"done", "failed"}
    /\ fpc' = IF pc = "done" THEN "returned" ELSE "raised"
    /\ ferr' = err
    /\ UNCHANGED <<FetchVars, geofabrik_urls, node_name, url_out, ParseVars, RegionVars, BuildVars, MoreVars,
                   CityVars, lonlat, freq, sorted_distances, region_node>>

\* The data of a run: a gazetteer of two places of one name in two
\* countries, a tree of two regions under the root, and the URL index
FindTrees ==
    {t \in TreesOf(3, {NoText, TextA, TextB, TextAB}) :
        /\ t[1].children = <<2, 3>>
        /\ t[2].name = <<"F">>
        /\ t[3].name = <<"e">>}
FindUrls ==
    {[n \in RegionNames |-> IF n = <<"F">> THEN <<UrlPoly, UrlEuropeG>> ELSE <<UrlEuropeM>>],
     [n \in {<<"F">>} |-> <<UrlMd5>>]}

InitFind ==
    /\ FetchIdle
    /\ ParseIdle
    /\ BuildIdle
    /\ MoreIdle
    /\ geofabrik_urls \in FindUrls
    /\ node_name = "none"
    /\ url_out = NoUrlOut
    /\ city_df = <<CityRow(<<"A">>, "X", 1), CityRow(<<"A">>, "Y", 2)>>
    /\ country_df = <<[Code |-> "X", Name |-> <<"F">>], [Code |-> "Y", Name |-> <<"e">>]>>
    /\ req = NoRequest
    /\ cpc = "idle"
    /\ choices = <<>>
    /\ user_input = <<>>
    /\ asked = FALSE
    /\ result = NoResult
    /\ regions \in FindTrees
    /\ all_polygons = NoMapping
    /\ region_polygons = NoMapping
    /\ matched = NoMatch
    /\ lonlat \in [1..2 -> Points]
    /\ fpc = "idle"
    /\ freq = NoRequest
    /\ sorted_distances = <<>>
    /\ region_node = 0
    /\ ferr = "none"

NextFind ==
    \/ FindDownloadShp
    \/ ReadLine
    \/ Decide
    \/ FindRegion
    \/ RegionReadLine
    \/ RegionDecide
    \/ DownloadOk
    \/ DownloadFail
    \/ Mkdir
    \/ OpenZip
    \/ Extract
    \/ Remove
    \/ FindReturn

SpecFind == InitFind /\ [][NextFind]_vars

(***************************************************************************)
(* Claims about find_download_shp, checked under SpecFind                  *)
(***************************************************************************)

\* C11: a call of find_download_shp with interactive=False never waits for
\* a line of the user: neither at the prompt that lists the gazetteer rows
\* of a city name nor at the prompt that lists the nearest regions.
C11_NonInteractiveNeverPrompts ==
    (fpc # "idle" /\ ~freq.interactive) =>
        /\ cpc \notin {"prompt", "read"}
        /\ ~asked
        /\ fpc \notin {"region_prompt", "region_read"}

\* the middle of a square whose sides run along the axes
Middle(polygon) ==
    LET xs == {polygon[i][1] : i \in 1..Len(polygon)}
        ys == {polygon[i][2] : i \in 1..Len(polygon)}
        Least(S) == CHOOSE x \in S : \A y \in S : x <= y
        Most(S) == CHOOSE x \in S : \A y \in S : y <= x
    IN  <<(Least(xs) + Most(xs)) \div 2, (Least(ys) + Most(ys)) \div 2>>

\* the square of the distance from each point to the nearest of the middles
\* of the polygons of each text
NearestOf ==
    {<<point, p[1],
       LET d(k) == (point[1] - Middle(p[2][k])[1]) * (point[1] - Middle(p[2][k])[1])
                       + (point[2] - Middle(p[2][k])[2]) * (point[2] - Middle(p[2][k])[2])
       IN  CHOOSE x \in {d(k) : k \in 1..Len(p[2])} : \A k \in 1..Len(p[2]) : x <= d(k)>> :
        point \in Points, p \in {q \in OwnPolygonsOf : q[2] # <<>>}}
Nearest(point, n) ==
    Value({p[3] : p \in {q \in NearestOf : q[1] = point /\ q[2] = regions[n].polygon}})

\* C17: a call with interactive=False that has its place chooses, among
\* the leaves of the whole tree that have a polygon, the leaf nearest to
\* the point of the place by the centroid of its nearest polygon, and of
\* several nearest leaves the first in traversal order; it chooses no node
\* that has children and no leaf without a polygon.
C17_NearestCentroid ==
    (fpc \notin {"idle", "resolve"} /\ ~freq.interactive
        /\ cpc = "returned" /\ result.kind = "Series") =>
        LET point == lonlat[result.rows[1]]
            order == traverse(regions, 1)
            at(n) == CHOOSE i \in 1..Len(order) : order[i] = n
            leaves == {n \in 1..Len(regions) :
                          regions[n].children = <<>> /\ OwnPolygons(regions[n]) # <<>>}
        IN  IF leaves = {} THEN region_node = 0
            ELSE /\ region_node \in leaves
                 /\ \A m \in leaves :
                       \/ Nearest(point, region_node) < Nearest(point, m)
                       \/ /\ Nearest(point, region_node) = Nearest(point, m)
                          /\ at(region_node) <= at(m)

\* the second leaf is chosen by the nearer of its two polygons, although
\* the root has a polygon as near
C17_Witness ==
    /\ fpc = "returned" /\ ~freq.interactive
    /\ result.kind = "Series"
    /\ lonlat[result.rows[1]] = <<1, 1>>
    /\ regions[1].polygon = TextA
    /\ regions[2].polygon = TextB
    /\ regions[3].polygon = TextAB
    /\ region_node = 3

(***************************************************************************)
(* The crawl of the site: find_tree of build_region_tree.py                *)
(***************************************************************************)

\* most links in the table of a listing page
MaxLinks == 2

\* most calls of navigate_node within one another: the limit of the call
\* stack of the interpreter, past which the call raises RecursionError
RecursionLimit == 4

\* line 15: the address of the first listing page
URL == <<"h", ":", "/">>
HTML == <<".", "h", "t", "m", "l">>

\* no response: session.get raises ConnectionError once the retries of the
\* adapter are used up
ConnectionError == 0

\* urljoin(url, href) for a relative href: the directory of url, then href
urljoin(url, href) == SubSeq(url, 1, RFind(url, "/")) \o href

\* The site: three listing pages, the first at URL, the others at 2.html
\* and 3.html beside it.  A page has a response and the links of the first
\* cells of its table of subregions and of its table of special
\* subregions, each a display text and an href; a page links to the pages
\* after it and to files.  At most one page fails.
PageHref(p) == <<Digits[p + 1]>> \o HTML
PageAt(url) == IF url = URL THEN 1 ELSE CHOOSE p \in 2..3 : url = urljoin(URL, PageHref(p))
LinksOver(texts, hrefs, most) ==
    UNION {[1..k -> {[text |-> t, href |-> h] : t \in texts, h \in hrefs}] : k \in 0..most}
Sites ==
    {[status |-> st, links |-> <<l1, l2, l3>>, special |-> <<<<>>, <<>>, <<>>>>] :
        st \in {f \in [1..3 -> {200, 404, ConnectionError}] :
                   Cardinality({p \in 1..3 : f[p] # 200}) <= 1},
        l1 \in LinksOver({<<"a">>, <<"á">>, <<"F">>}, {PageHref(2), PageHref(3), <<"f">>}, MaxLinks),
        l2 \in LinksOver({<<"a">>}, {PageHref(3), <<"g">>}, MaxLinks),
        l3 \in LinksOver({<<"a">>}, {<<"k">>}, 1)}

\* lines 25-33: a dict from display text to href; a text met again keeps
\* its place and takes the later href
RECURSIVE get_pages_from_table(_)
get_pages_from_table(table) ==
    IF table = <<>> THEN <<>>
    ELSE Value({DictSet(pages, table[Len(table)].text, table[Len(table)].href) :
                   pages \in {get_pages_from_table(SubSeq(table, 1, Len(table) - 1))}})

\* TreeNode(name) with its feature url, or TreeNode(): a node with the
\* empty name and no feature
NewNode(c, name, url) ==
    [c EXCEPT !.tree = Append(@, [name |-> name, url |-> url, children |-> <<>>]),
              !.node = Len(c.tree) + 1]

\* line 74.  The test of line 73 holds for every node: a TreeNode is true
\* whatever it holds
add_child(c, node, child_node) ==
    [c EXCEPT !.tree[node].children = Append(@, child_node)]

\* line 76: region_urls is a defaultdict(list) with the name as key
DictAppend(items, key, value) ==
    IF \E i \in 1..Len(items) : items[i].key = key
    THEN DictSet(items, key, Append(DictGet(items, key), value))
    ELSE Append(items, [key |-> key, value |-> <<value>>])

\* lines 20-23: the tables of subregions of the page, then its tables of
\* special subregions
find_tables(page) == <<site.links[page], site.special[page]>>

\* lines 51-77: navigate_node, on the tree, the index and the requests made
\* so far; an exception of session.get, or the RecursionError of a call
\* past the limit of the stack, ends every call on the stack
RECURSIVE navigate_node(_, _, _, _)
RECURSIVE NavigateTables(_, _, _, _, _, _)
RECURSIVE NavigatePages(_, _, _, _, _, _)
navigate_node(c, url, region, depth) ==
    IF depth > RecursionLimit
    THEN [c EXCEPT !.raised = TRUE]
    ELSE IF site.status[PageAt(url)] = ConnectionError
    THEN [c EXCEPT !.gets = Append(@, url), !.raised = TRUE]
    ELSE IF site.status[PageAt(url)] # 200
    THEN NewNode([c EXCEPT !.gets = Append(@, url)], <<>>, NoText)
    ELSE Value({NavigateTables(made, made.node, url, region, tables, depth) :
                   made \in {NewNode([c EXCEPT !.gets = Append(@, url)], unidecode(region), url)},
                   tables \in {find_tables(PageAt(url))}})
NavigateTables(c, node, url, region, tables, depth) ==
    IF c.raised THEN c
    ELSE IF tables = <<>> THEN [c EXCEPT !.node = node]
    ELSE Value({NavigateTables(after, node, url, region, rest, depth) :
                   after \in {NavigatePages(c, node, url, region,
                                            get_pages_from_table(Head(tables)), depth)},
                   rest \in {Tail(tables)}})
NavigatePages(c, node, url, region, pages, depth) ==
    IF c.raised THEN c
    ELSE IF pages = <<>> THEN [c EXCEPT !.node = node]
    ELSE IF EndsWith(pages[1].value, HTML)
    THEN Value({NavigatePages(after, node, url, region, rest, depth) :
                   after \in {IF child.raised THEN child ELSE add_child(child, node, child.node) :
                                 child \in {navigate_node(c, urljoin(url, pages[1].value),
                                                          unidecode(pages[1].key), depth + 1)}},
                   rest \in {Tail(pages)}})
    ELSE Value({NavigatePages(after, node, url, region, rest, depth) :
                   after \in {[c EXCEPT !.urls = DictAppend(@, region, urljoin(url, pages[1].value))]},
                   rest \in {Tail(pages)}})

\* lines 50 and 79-82: find_tree returns the tree and the index, or the
\* exception of a request leaves it
FindTree ==
    /\ tpc = "idle"
    /\ \E c \in {navigate_node([tree |-> <<>>, urls |-> <<>>, gets |-> <<>>,
                                raised |-> FALSE, node |-> 0], URL, <<>>, 1)} :
          /\ gets' = c.gets
          /\ tpc' = IF c.raised THEN "raised" ELSE "returned"
          /\ region_tree' = IF c.raised THEN NoTree ELSE c.tree
          /\ region_urls' = IF c.raised THEN <<>> ELSE c.urls
    /\ UNCHANGED <<FetchVars, geofabrik_urls, node_name, url_out, CityVars,
                   ParseVars, RegionVars, FindVars, MoreVars, site, TreeVars>>

InitCrawl ==
    /\ FetchIdle
    /\ UrlIdle
    /\ CityIdle
    /\ ParseIdle
    /\ RegionsIdle
    /\ FindIdle
    /\ TreeIdle
    /\ MoreIdle
    /\ site \in Sites
    /\ tpc = "idle"
    /\ region_tree = NoTree
    /\ region_urls = <<>>
    /\ gets = <<>>

NextCrawl == FindTree

SpecCrawl == InitCrawl /\ [][NextCrawl]_vars

(***************************************************************************)
(* Claims about the crawl, checked under SpecCrawl                         *)
(***************************************************************************)

\* the pages that the links of page p lead to; of two links of one display
\* text the table keeps the later
Followed(p) ==
    {q \in 2..3 : \E i \in 1..Len(site.links[p]) :
        /\ site.links[p][i].href = PageHref(q)
        /\ \A j \in (i + 1)..Len(site.links[p]) : site.links[p][j].text # site.links[p][i].text}

\* the pages that links lead to from the first page through pages that
\* were fetched
RECURSIVE Reach(_)
Reach(S) ==
    LET more == S \cup UNION {IF site.status[p] = 200 THEN Followed(p) ELSE {} : p \in S}
    IN  IF more = S THEN S ELSE Reach(more)

\* C18: the failure of a listing page, by a response that is not 200 or by
\* a request that fails after its retries, never ends the crawl: find_tree
\* returns, no node of its tree stands for a page that failed, and every
\* page that a link of a fetched page leads to was requested.
C18_FailedPageOmitted ==
    tpc # "idle" =>
        /\ tpc = "returned"
        /\ \A n \in 1..Len(region_tree) :
              /\ region_tree[n].url # NoText
              /\ site.status[PageAt(region_tree[n].url)] = 200
        /\ \A p \in Reach({1}) :
              \E i \in 1..Len(gets) : PageAt(gets[i]) = p

\* C19: after the crawl, for every node of a page that was fetched, the
\* links of the page that end in .html gave the children of the node, one
\* child per link and in their order, each named by unidecode of the
\* display text, and the entry of the URL index for the node holds the
\* other links of that page and nothing else, also when nodes share a name.
C19_LinksOfOwnPage ==
    tpc = "returned" =>
        \A n \in 1..Len(region_tree) :
            region_tree[n].url # NoText =>
                LET links == site.links[PageAt(region_tree[n].url)]
                    sub == SelectSeq(links, LAMBDA l : EndsWith(l.href, HTML))
                    other == SelectSeq(links, LAMBDA l : ~EndsWith(l.href, HTML))
                    entry == UNION {{region_urls[i].value[k] : k \in 1..Len(region_urls[i].value)} :
                                       i \in {j \in 1..Len(region_urls) :
                                                 region_urls[j].key = region_tree[n].name}}
                IN  /\ Len(region_tree[n].children) = Len(sub)
                    /\ \A i \in 1..Len(sub) :
                          region_tree[region_tree[n].children[i]].name = unidecode(sub[i].text)
                    /\ entry = {urljoin(region_tree[n].url, other[i].href) : i \in 1..Len(other)}

(***************************************************************************)
(* The tree file: tree.write of build_region_tree.py, and                  *)
(* get_regions_tree of data.py                                             *)
(***************************************************************************)

\* A polygon text as the response of a .poly URL holds it: three lines
RawText == <<"F", "\n", "0", " ", "0", "\n">> \o END

\* The trees that __main__ writes: the root has the empty name and the url
\* URL; another node has the name of its link and the url of its page,
\* or, for a page that failed, the empty name and no url; fetch_polygons
\* gave a node a polygon text or none
BuiltTrees ==
    UNION {{[k \in 1..n |->
                [name |-> IF k = 1 \/ ~page[k] THEN <<>> ELSE names[k],
                 url |-> IF k = 1 THEN URL
                         ELSE IF page[k] THEN urljoin(URL, names[k] \o HTML) ELSE NoText,
                 polygon |-> text[k],
                 children |-> ChildrenOf(up, n, k)]] :
               up \in Parents(n), names \in [2..n -> RegionNames],
               page \in [2..n -> BOOLEAN], text \in [1..n -> {NoText, RawText}]} :
           n \in 2..MaxNodes}

\* ete3 writes "_" for each of these characters of a name or of the value
\* of a feature
Illegal == {":", ";", "(", ")", ",", "[", "]", "=", "\t", "\n", "\r"}
Sanitised(s) == [i \in 1..Len(s) |-> IF s[i] \in Illegal THEN "_" ELSE s[i]]

\* the features url and polygon of a node, for those it has
FeaturesString(node) ==
    LET url == IF node.url = NoText THEN <<>>
               ELSE <<<<"u", "r", "l", "=">> \o Sanitised(node.url)>>
        polygon == IF node.polygon = NoText THEN <<>>
                   ELSE <<<<"p", "o", "l", "y", "g", "o", "n", "=">> \o Sanitised(node.polygon)>>
        features == url \o polygon
    IN  IF features = <<>> THEN <<>>
        ELSE <<"[", "&", "&", "N", "H", "X", ":">> \o features[1]
                 \o (IF Len(features) = 2 THEN <<":">> \o features[2] ELSE <<>>) \o <<"]">>

\* format=1: the name and the distance 1 of a node, then its features
format_node(node) == Sanitised(node.name) \o <<":", "1">> \o FeaturesString(node)

\* tree.write(format=1, features=["url", "polygon"]): the root of a tree
\* with children is written without name and features
RECURSIVE write_newick(_, _)
RECURSIVE WriteChildren(_, _)
write_newick(tree, n) ==
    IF tree[n].children = <<>> THEN format_node(tree[n])
    ELSE <<"(">> \o WriteChildren(tree, tree[n].children) \o <<")">>
             \o (IF n = 1 THEN <<>> ELSE format_node(tree[n]))
WriteChildren(tree, children) ==
    IF children = <<>> THEN <<>>
    ELSE write_newick(tree, children[1])
             \o (IF Len(children) > 1 THEN <<",">> ELSE <<>>)
             \o WriteChildren(tree, Tail(children))

\* Tree(path, format=1): a node as the reader makes it, and add_child
TreeNode(up) == [name |-> <<>>, url |-> NoText, polygon |-> NoText, up |-> up, children |-> <<>>]
AddChild(r, parent) ==
    [r EXCEPT !.tree = Append([@ EXCEPT ![parent].children = Append(@, Len(r.tree) + 1)],
                              TreeNode(parent)),
              !.node = Len(r.tree) + 1]

\* the fields of the NHX comment of a node: name=value, with ":" between
RECURSIVE ParseExtraFeatures(_, _, _)
ParseExtraFeatures(r, node, fields) ==
    IF fields = <<>> \/ r.error THEN r
    ELSE Value({IF Len(pair) # 2 THEN [r EXCEPT !.error = TRUE]
                ELSE ParseExtraFeatures(
                         IF pair[1] = <<"u", "r", "l">> THEN [r EXCEPT !.tree[node].url = pair[2]]
                         ELSE IF pair[1] = <<"p", "o", "l", "y", "g", "o", "n">>
                         THEN [r EXCEPT !.tree[node].polygon = pair[2]]
                         ELSE r,
                         node, Tail(fields)) :
                   pair \in {Split(fields[1], "=")}})

\* the text of one node: name, ":" and distance, NHX comment
ReadNodeData(r, text, leaf) ==
    Value({IF subnw = <<>> THEN [made EXCEPT !.error = leaf]
           ELSE Value({ParseExtraFeatures(
                           IF Strip(Split(SubSeq(subnw, 1, at - 1), ":")[1]) = <<>> THEN made
                           ELSE [made EXCEPT !.tree[made.node].name =
                                                 Strip(Split(SubSeq(subnw, 1, at - 1), ":")[1])],
                           made.node,
                           IF at > Len(subnw) THEN <<>>
                           ELSE Split(SubSeq(subnw, at + 7, Len(subnw) - 1), ":")) :
                          at \in {CHOOSE i \in 1..(Len(subnw) + 1) :
                                     /\ i <= Len(subnw) => subnw[i] = "["
                                     /\ \A j \in 1..(i - 1) : subnw[j] # "["}}) :
              subnw \in {Strip(text)},
              made \in {IF leaf THEN AddChild(r, r.node) ELSE r}})

\* the pieces of a leaf text that ")" parts: a leaf, then the inner nodes
\* that close after it
RECURSIVE ReadClosing(_, _)
ReadClosing(r, closing) ==
    IF closing = <<>> \/ r.error THEN r
    ELSE Value({ReadClosing([read EXCEPT !.node = r.tree[r.node].up], Tail(closing)) :
                   read \in {ReadNodeData(r, IF closing[1] # <<>> /\ closing[1][Len(closing[1])] = ";"
                                               THEN SubSeq(closing[1], 1, Len(closing[1]) - 1)
                                               ELSE closing[1], FALSE)}})

\* the pieces of a chunk that "," parts
RECURSIVE ReadLeaves(_, _)
ReadLeaves(r, subchunks) ==
    IF subchunks = <<>> \/ r.error THEN r
    ELSE IF Len(subchunks) = 1 /\ Strip(subchunks[1]) = <<>> THEN r
    ELSE Value({ReadLeaves(closed, Tail(subchunks)) :
                   closed \in {ReadClosing([read EXCEPT !.node = r.node],
                                          Tail(Split(subchunks[1], ")"))) :
                                  read \in {ReadNodeData(r, Split(subchunks[1], ")")[1], TRUE)}}})

\* the chunks that "(" parts: each opens an inner node
RECURSIVE ReadChunks(_, _)
ReadChunks(r, chunks) ==
    IF chunks = <<>> \/ r.error THEN r
    ELSE Value({ReadChunks(read, Tail(chunks)) :
                   read \in {ReadLeaves(opened, Split(chunks[1], ",")) :
                                opened \in {IF r.node = 0 THEN [r EXCEPT !.node = 1]
                                            ELSE AddChild(r, r.node)}}})

\* what a text that is no tree makes the reader raise
NewickError == <<[error |-> "NewickError"]>>

read_newick(nw) ==
    ReadChunks([tree |-> <<TreeNode(0)>>, node |-> 0, error |-> FALSE], Tail(Split(nw, "(")))

\* line 127 of build_region_tree.py
WriteTree ==
    /\ geofabrik_tree_nw = NoFile
    /\ geofabrik_tree_nw' = write_newick(built, 1) \o <<";">>
    /\ UNCHANGED <<FetchVars, geofabrik_urls, node_name, url_out, CityVars,
                   ParseVars, RegionVars, FindVars, MoreVars, CrawlVars, built, loaded>>

\* lines 60-62 of data.py
GetRegionsTree ==
    /\ geofabrik_tree_nw # NoFile
    /\ loaded = NoTree
    /\ \E r \in {read_newick(geofabrik_tree_nw)} :
          loaded' = IF r.error THEN NewickError ELSE r.tree
    /\ UNCHANGED <<FetchVars, geofabrik_urls, node_name, url_out, CityVars,
                   ParseVars, RegionVars, FindVars, MoreVars, CrawlVars, built, geofabrik_tree_nw>>

InitTree ==
    /\ FetchIdle
    /\ UrlIdle
    /\ CityIdle
    /\ ParseIdle
    /\ RegionsIdle
    /\ FindIdle
    /\ CrawlIdle
    /\ MoreIdle
    /\ built \in BuiltTrees
    /\ geofabrik_tree_nw = NoFile
    /\ loaded = NoTree

NextTree ==
    \/ WriteTree
    \/ GetRegionsTree

SpecTree == InitTree /\ [][NextTree]_vars

\* the subtrees of node n of the tree written and of node m of the tree
\* loaded are the same: names, urls, polygon texts, children and their order
RECURSIVE Same(_, _)
Same(n, m) ==
    /\ loaded[m].name = built[n].name
    /\ loaded[m].url = built[n].url
    /\ loaded[m].polygon = built[n].polygon
    /\ Len(loaded[m].children) = Len(built[n].children)
    /\ \A i \in 1..Len(built[n].children) : Same(built[n].children[i], loaded[m].children[i])

\* C20: the tree loaded from the tree file is the tree that was written:
\* the same nodes, children and order of children, and for every node the
\* same name, url and polygon text.
C20_RoundTrip == loaded # NoTree => (loaded # NewickError /\ Same(1, 1))

(***************************************************************************)
(* The order of the steps of a fetch, checked under Spec                   *)
(***************************************************************************)

\* C22: on a cache miss the extraction directory is created only after the
\* downloaded archive has been opened: while the archive is still to be
\* opened, or could not be opened, the directory of the call does not
\* exist; and after a successful call the archive is no longer in the
\* cache root.
C22_DirectoryAfterArchiveOpens ==
    /\ (pc = "open" \/ (pc = "failed" /\ err = "BadZipFile")) =>
          _get_extract_dir(shp_path, fname) \notin DOMAIN dirs
    /\ (pc = "done" /\ ~hit) => fname \notin DOMAIN zips

(***************************************************************************)
(* Two processes at one cache root                                         *)
(***************************************************************************)

NotRace == <<geofabrik_urls, node_name, url_out, CityVars, ParseVars, RegionVars,
             FindVars, BuildVars, RequestVars, ppc, rerun, PosterVars, CountryVars>>

\* lines 278-294 in a second process of the same cache root, one step of
\* it: the check of line 282, the download, mkdir, ZipFile, extractall,
\* os.remove
SecondFetch ==
    /\ UNCHANGED NotRace
    /\ UNCHANGED <<pc, shp_url, fname, hit, net, ret, err, prev>>
    /\ LET extract_dir == _get_extract_dir(shp_path, second.fname)
       IN  CASE second.pc = "idle" ->
                   /\ \E url \in ShpUrls :
                         second' = [pc |-> IF CacheHit(url) THEN "done" ELSE "download",
                                    url |-> url, fname |-> LastComponent(url, "/")]
                   /\ UNCHANGED <<dirs, zips>>
             [] second.pc = "download" ->
                   /\ second' = [second EXCEPT !.pc = "mkdir",
                                               !.fname = wget_filename(second.url, shp_path)]
                   /\ zips' = Put(zips, wget_filename(second.url, shp_path), second.url)
                   /\ UNCHANGED dirs
             [] second.pc = "mkdir" ->
                   /\ second' = [second EXCEPT !.pc = IF Exists(extract_dir) THEN "failed" ELSE "open"]
                   /\ dirs' = IF Exists(extract_dir) THEN dirs
                              ELSE Put(dirs, extract_dir, [state |-> "empty", src |-> NoPath])
                   /\ UNCHANGED zips
             [] second.pc = "open" ->
                   /\ second' = [second EXCEPT !.pc = "extract"]
                   /\ UNCHANGED <<dirs, zips>>
             [] second.pc = "extract" ->
                   /\ second' = [second EXCEPT !.pc = "remove"]
                   /\ dirs' = Put(dirs, extract_dir, [state |-> "complete", src |-> zips[second.fname]])
                   /\ UNCHANGED zips
             [] second.pc = "remove" ->
                   /\ second' = [second EXCEPT !.pc = "done"]
                   /\ zips' = Drop(zips, second.fname)
                   /\ UNCHANGED dirs
             [] OTHER -> FALSE

\* one call in each process
NextRace ==
    \/ Call
    \/ DownloadOk
    \/ DownloadFail
    \/ Mkdir
    \/ OpenZip
    \/ Extract
    \/ Remove
    \/ SecondFetch

SpecRace == Init /\ [][NextRace]_vars

\* C23: a fetch that comes to create its extraction directory when the
\* directory its cache-hit check looked for, and did not find, has come
\* into existence fails with FileExistsError and creates and extracts
\* nothing.
C23_CollisionFails ==
    [][(pc = "mkdir" /\ pc' # "mkdir" /\ CheckedDir(shp_url) \in DOMAIN dirs)
          => (pc' = "failed" /\ err' = "FileExistsError" /\ dirs' = dirs)]_vars

(***************************************************************************)
(* One request of a session with HTTPAdapter(max_retries=3)                *)
(***************************************************************************)

\* lines 258-259 of data.py, lines 121-122 of build_region_tree.py
max_retries == 3

\* What comes of one attempt: no response (the connection fails or times
\* out), or a response with its status and with or without the header
\* Retry-After
Outcomes ==
    {[kind |-> "error", status |-> 0, retry_after |-> FALSE]}
        \cup {[kind |-> "response", status |-> st, retry_after |-> FALSE] : st \in {200, 404, 503}}
        \cup {[kind |-> "response", status |-> 503, retry_after |-> TRUE]}

\* Retry.from_int(3), the retries of the adapter: after a failure of the
\* transport, and after a response of status 413, 429 or 503 that bears
\* the header Retry-After
is_retry(outcome) ==
    \/ outcome.kind = "error"
    \/ outcome.retry_after /\ outcome.status \in {413, 429, 503}

\* session.get(url), called on line 54 or line 102 of build_region_tree.py
\* or on line 260 of data.py
Get ==
    /\ rq.pc = "idle"
    /\ \E caller \in {"navigate_node", "fetch_polygons", "_find_shp_url"} :
          rq' = [pc |-> "sent", caller |-> caller, result |-> "none"]
    /\ wire' = <<>>
    /\ UNCHANGED <<FetchVars, geofabrik_urls, node_name, url_out, CityVars, ParseVars,
                   RegionVars, FindVars, BuildVars, second, ppc, rerun, PosterVars,
                   CountryVars>>

\* one attempt of the adapter: it tries again, gives the response to the
\* caller, or raises when the retries are used up
Attempt ==
    /\ rq.pc = "sent"
    /\ \E outcome \in Outcomes :
          /\ wire' = Append(wire, outcome)
          /\ rq' = IF ~is_retry(outcome) THEN [rq EXCEPT !.pc = "responded"]
                   ELSE IF Len(wire) >= max_retries
                   THEN [rq EXCEPT !.pc = "raised",
                                   !.result = IF outcome.kind = "error" THEN "ConnectionError"
                                              ELSE "RetryError"]
                   ELSE rq
    /\ UNCHANGED <<FetchVars, geofabrik_urls, node_name, url_out, CityVars, ParseVars,
                   RegionVars, FindVars, BuildVars, second, ppc, rerun, PosterVars,
                   CountryVars>>

\* what the caller does with the response or the exception: lines 56-60
\* and 103-106 of build_region_tree.py, lines 262-267 of data.py; none
\* calls session.get again
Handle ==
    /\ rq.pc \in {"responded", "raised"}
    /\ rq' = [rq EXCEPT
                 !.pc = "done",
                 !.result =
                     IF rq.caller = "fetch_polygons"
                     THEN IF rq.pc = "raised" \/ wire[Len(wire)].status >= 400
                          THEN "no polygon" ELSE "polygon"
                     ELSE IF rq.pc = "raised" THEN rq.result
                     ELSE IF wire[Len(wire)].status = 200 THEN "page"
                     ELSE IF rq.caller = "navigate_node" THEN "TreeNode()"
                     ELSE "IOError"]
    /\ UNCHANGED <<FetchVars, geofabrik_urls, node_name, url_out, CityVars, ParseVars,
                   RegionVars, FindVars, BuildVars, second, ppc, rerun, PosterVars,
                   CountryVars, wire>>

NextRequest ==
    \/ Get
    \/ Attempt
    \/ Handle

SpecRequest == Init /\ [][NextRequest]_vars

\* C21: a request is attempted at most 1 + 3 times, and every attempt but
\* the last of a request ended without a response, by a failure of the
\* transport: a response with an HTTP error status is never tried again.
C21_RetryOnlyTransportFailures ==
    /\ Len(wire) <= max_retries + 1
    /\ \A i \in 1..(Len(wire) - 1) : wire[i].kind = "error"

(***************************************************************************)
(* The errors of find_download_shp, checked under SpecFind                 *)
(***************************************************************************)

\* C28: when find_download_shp raises before it has a download URL (no
\* row for the place, no leaf with a polygon, the name of the chosen node
\* not in the URL index, or no URL of the shapefile suffix in its entry),
\* the exception is a ValueError, the one the poster service catches.
C28_LookupFailsWithValueError ==
    (fpc = "raised" /\ pc = "idle") => ferr = "ValueError"

(***************************************************************************)
(* find_country_regions and its cache                                      *)
(***************************************************************************)

\* most calls of find_country_regions
MaxCalls == 2

\* the countries asked for: the names of the nodes, and a name no node has
CountryNames == RegionNames \cup {<<"z">>}

NotCountry == <<FetchVars, geofabrik_urls, node_name, url_out, CityVars, ParseVars,
                all_polygons, region_polygons, matched, FindVars, BuildVars,
                second, RequestVars, ppc, rerun, PosterVars>>

\* lines 95-109 under @lru_cache: the first call with a country runs the
\* body and the cache keeps the generator it returns; a later call with
\* the country gets that same generator, as far as it has been run
FindCountryRegions ==
    /\ Len(listed) < MaxCalls
    /\ listed # <<>> => listed[Len(listed)].done
    /\ \E country \in CountryNames :
          /\ listed' = Append(listed, [country |-> country, names |-> <<>>, done |-> FALSE])
          /\ generators' = IF country \in DOMAIN generators THEN generators
                           ELSE generators @@ (country :> find_regions(regions, country))
    /\ UNCHANGED <<NotCountry, regions>>

\* the caller iterates: next() of the generator gives the name of the
\* next node, or StopIteration when no node is left
NextName ==
    /\ listed # <<>>
    /\ ~listed[Len(listed)].done
    /\ LET n == Len(listed)
           generator == generators[listed[n].country]
       IN  IF generator = <<>>
           THEN /\ listed' = [listed EXCEPT ![n].done = TRUE]
                /\ UNCHANGED generators
           ELSE /\ listed' = [listed EXCEPT ![n].names = Append(@, Head(generator))]
                /\ generators' = [generators EXCEPT ![listed[n].country] = Tail(generator)]
    /\ UNCHANGED <<NotCountry, regions>>

InitCountry ==
    /\ FetchIdle
    /\ UrlIdle
    /\ CityIdle
    /\ ParseIdle
    /\ FindIdle
    /\ BuildIdle
    /\ MoreIdle
    /\ regions \in UNION {TreesOf(n, {NoText}) : n \in 1..MaxNodes}
    /\ all_polygons = NoMapping
    /\ region_polygons = NoMapping
    /\ matched = NoMatch

NextCountry ==
    \/ FindCountryRegions
    \/ NextName

SpecCountry == InitCountry /\ [][NextCountry]_vars

\* C29: every call of find_country_regions(country), the first and each
\* later one, yields when iterated to its end the names of the nodes of
\* the subtree of the first node named country, in traversal order (and
\* nothing when no node has the name).
C29_EveryCallYieldsTheSubtree ==
    \A i \in 1..Len(listed) :
        listed[i].done => listed[i].names = find_regions(regions, listed[i].country)

(***************************************************************************)
(* The two calls of resolve_city in one poster run                         *)
(***************************************************************************)

\* functools.lru_cache: the key of a call is made of its positional
\* arguments and of its keywords with their values, as the call wrote them
make_key(args, kwds) == [args |-> args, kwds |-> kwds]

\* the body of resolve_city runs with the keywords at their defaults
Defaults(city, country) ==
    [city |-> city, country |-> country, interactive |-> TRUE,
     element_if_one |-> TRUE, first |-> FALSE]

\* a call through the cache: the value the cache holds for the key, or
\* the body
cached_resolve_city(key, city, country) ==
    IF key \in DOMAIN cache
    THEN /\ cpc' = "returned"
         /\ result' = cache[key]
         /\ req' = Defaults(city, country)
         /\ choices' = <<>>
         /\ user_input' = <<>>
         /\ asked' = FALSE
         /\ UNCHANGED <<city_df, country_df>>
    ELSE resolve_city(Defaults(city, country))

\* entrypoints.py lines 249-252 and data.py line 234:
\* browser_get_geojson_path_interactive calls resolve_city(city, country)
BrowserGetGeojson ==
    /\ geo = NoPlace
    /\ \E city \in CityArgs, country \in CountryArgs :
          /\ geo' = [NoPlace EXCEPT !.kind = "pending", !.city = city, !.country = country]
          /\ cached_resolve_city(make_key(<<city, country>>, <<>>), city, country)
    /\ UNCHANGED <<FetchVars, geofabrik_urls, node_name, url_out, ParseVars, RegionVars,
                   FindVars, BuildVars, second, RequestVars, ppc, rerun, cache, CountryVars>>

\* resolve_city returns to line 234 and the cache keeps what it returned;
\* lines 235-244: the editor opens at the place, or ValueError
GeojsonPlace ==
    /\ geo.kind = "pending"
    /\ cpc \in {"returned", "raised"}
    /\ geo' = [geo EXCEPT !.kind = IF result.kind = "None" THEN "ValueError" ELSE result.kind,
                          !.rows = result.rows,
                          !.asked = asked]
    /\ cache' = IF cpc = "raised" THEN cache
                ELSE cache @@ (make_key(<<geo.city, geo.country>>, <<>>) :> result)
    /\ cpc' = "idle"
    /\ req' = NoRequest
    /\ choices' = <<>>
    /\ user_input' = <<>>
    /\ asked' = FALSE
    /\ result' = NoResult
    /\ UNCHANGED <<FetchVars, geofabrik_urls, node_name, url_out, ParseVars, RegionVars,
                   FindVars, BuildVars, second, RequestVars, ppc, rerun, CountryVars,
                   city_df, country_df>>

\* entrypoints.py lines 253-256 and data.py line 345: find_download_shp
\* calls resolve_city(city=city, country=country)
PosterFindDownloadShp ==
    /\ geo.kind = "Series"
    /\ fpc = "idle"
    /\ fpc' = "resolve"
    /\ freq' = [city |-> geo.city, country |-> geo.country, interactive |-> FALSE]
    /\ cached_resolve_city(make_key(<<>>, <<"city", geo.city, "country", geo.country>>),
                           geo.city, geo.country)
    /\ UNCHANGED <<FetchVars, geofabrik_urls, node_name, url_out, ParseVars, RegionVars,
                   BuildVars, MoreVars, lonlat, sorted_distances, region_node, ferr>>

InitPoster ==
    /\ FetchIdle
    /\ UrlIdle
    /\ AfterCityIdle
    /\ city_df \in {t \in CityTables : Len(t) = 2}
    /\ country_df = <<[Code |-> "X", Name |-> <<"F">>], [Code |-> "Y", Name |-> <<"e">>]>>
    /\ req = NoRequest
    /\ cpc = "idle"
    /\ choices = <<>>
    /\ user_input = <<>>
    /\ asked = FALSE
    /\ result = NoResult

NextPoster ==
    \/ BrowserGetGeojson
    \/ ReadLine
    \/ Decide
    \/ GeojsonPlace
    \/ PosterFindDownloadShp

SpecPoster == InitPoster /\ [][NextPoster]_vars

\* C27: in one poster run the user is asked to choose among the rows of
\* the gazetteer at most once, and the row find_download_shp works with
\* is the row the geojson editor was opened at.
C27_AskedOnceSamePlace ==
    fpc = "resolve" =>
        /\ ~(geo.asked /\ asked)
        /\ cpc = "returned" => result.rows = geo.rows

(***************************************************************************)
(* The two passes of build_region_tree.py: find_tree, then fetch_polygons  *)
(***************************************************************************)

POLY == <<".", "p", "o", "l", "y">>

\* The site with its polygon files: beside the listing pages, the files
\* 1.poly, 2.poly and 3.poly, each with the response of its URL.  Page p
\* links to pages after it, to its polygon file and to another file.  At
\* most one page and at most one polygon file fail.
PolyHref(p) == <<Digits[p + 1]>> \o POLY
PolyAt(url) == CHOOSE p \in 1..3 : url = urljoin(URL, PolyHref(p))
PolyResponses ==
    {[status |-> 200, text |-> RawText],
     [status |-> 404, text |-> <<"4", "0", "4">>],
     [status |-> ConnectionError, text |-> <<>>]}
BuildSites ==
    {[status |-> st, links |-> <<l1, l2, l3>>, special |-> <<<<>>, <<>>, <<>>>>, poly |-> py] :
        st \in {f \in [1..3 -> {200, 404, ConnectionError}] :
                   Cardinality({p \in 1..3 : f[p] # 200}) <= 1},
        l1 \in LinksOver({<<"a">>, <<"F">>}, {PageHref(2), PolyHref(1)}, MaxLinks),
        l2 \in LinksOver({<<"a">>}, {PageHref(3), PolyHref(2)}, MaxLinks),
        l3 \in LinksOver({<<"a">>}, {PolyHref(3), <<"k">>}, 1),
        py \in {f \in [1..3 -> PolyResponses] :
                   Cardinality({p \in 1..3 : f[p].status # 200}) <= 1}}

\* lines 99-101: next(filter(...)) over urls[node_name]: the first URL of
\* the entry that ends in .poly; NoText stands for the KeyError of a name
\* without entry and for the StopIteration of an entry without such a URL
poly_url(urls, name) ==
    IF \A i \in 1..Len(urls) : urls[i].key # name THEN NoText
    ELSE Value({IF found = <<>> THEN NoText ELSE found[1] :
                   found \in {SelectSeq(DictGet(urls, name), LAMBDA x : EndsWith(x, POLY))}})

\* a pass that takes the text of whatever response came
any_response_text(response) == response.text

\* lines 102-105: session.get raises when there is no response,
\* raise_for_status raises for an error status; otherwise response.text.
\* NoText stands for the RequestException
response_text(response) ==
    IF response.status = ConnectionError \/ response.status >= 400 THEN NoText
    ELSE response.text

\* lines 124 and 89-93: fetch_polygons is called with what find_tree
\* returned; no node has the feature polygon yet
FetchPolygons ==
    /\ tpc = "returned"
    /\ ppc = 0
    /\ ppc' = 1
    /\ built' = [n \in 1..Len(region_tree) |->
                    [name |-> region_tree[n].name, url |-> region_tree[n].url,
                     polygon |-> NoText, children |-> region_tree[n].children]]
    /\ UNCHANGED <<FetchVars, geofabrik_urls, node_name, url_out, CityVars, ParseVars,
                   RegionVars, FindVars, CrawlVars, geofabrik_tree_nw, loaded,
                   second, RequestVars, rerun, PosterVars, CountryVars>>

\* lines 94-108: the body of the loop for the next node of tree.traverse()
FetchPolygon ==
    /\ ppc \in 1..Len(built)
    /\ ppc' = ppc + 1
    /\ \E node \in {traverse(built, 1)[ppc]} :
       \E url \in {poly_url(region_urls, unidecode(built[node].name))} :
          IF url = NoText
          THEN UNCHANGED <<built, gets>>
          ELSE /\ gets' = Append(gets, url)
               /\ built' = [built EXCEPT ![node].polygon = response_text(site.poly[PolyAt(url)])]
    /\ UNCHANGED <<FetchVars, geofabrik_urls, node_name, url_out, CityVars, ParseVars,
                   RegionVars, FindVars, site, tpc, region_tree, region_urls,
                   geofabrik_tree_nw, loaded,
                   second, RequestVars, rerun, PosterVars, CountryVars>>

InitBuild ==
    /\ FetchIdle
    /\ UrlIdle
    /\ CityIdle
    /\ ParseIdle
    /\ RegionsIdle
    /\ FindIdle
    /\ TreeIdle
    /\ MoreIdle
    /\ site \in BuildSites
    /\ tpc = "idle"
    /\ region_tree = NoTree
    /\ region_urls = <<>>
    /\ gets = <<>>

NextBuild ==
    \/ FindTree
    \/ FetchPolygons
    \/ FetchPolygon

SpecBuild == InitBuild /\ [][NextBuild]_vars

(***************************************************************************)
(* Claims about the two passes, checked under SpecBuild                    *)
(***************************************************************************)

\* the URLs ending in .poly of the entry of the URL index for a name
PolysOf(name) ==
    UNION {{region_urls[i].value[k] : k \in {l \in 1..Len(region_urls[i].value) :
                                                EndsWith(region_urls[i].value[l], POLY)}} :
              i \in {j \in 1..Len(region_urls) : region_urls[j].key = name}}

\* the nodes the pass has visited
PassVisited == {traverse(built, 1)[i] : i \in 1..(ppc - 1)}

\* C24: fetch_polygons starts only after find_tree has returned; it visits
\* every node of the tree; a node it has visited whose entry of the URL
\* index has a URL ending in .poly had such a URL requested and has the
\* text of the response as polygon, or no polygon when that request
\* failed; a node without such a URL has no polygon; and the pass goes on
\* to the end of the tree whatever the requests give.
C24_PolygonPass ==
    /\ ppc > 0 =>
          /\ tpc = "returned"
          /\ Len(built) = Len(region_tree)
          /\ ppc <= Len(built) + 1
          /\ ppc = Len(built) + 1 => PassVisited = 1..Len(built)
    /\ \A n \in 1..Len(built) :
          IF n \in PassVisited /\ PolysOf(built[n].name) # {}
          THEN \E url \in PolysOf(built[n].name) :
                  /\ \E i \in 1..Len(gets) : gets[i] = url
                  /\ built[n].polygon = IF site.poly[PolyAt(url)].status = 200
                                        THEN site.poly[PolyAt(url)].text
                                        ELSE NoText
          ELSE built[n].polygon = NoText

\* the pass has visited three nodes: one has its polygon, the request for
\* the polygon of another failed, and the third has no polygon URL
C24_Witness ==
    /\ ppc = 4
    /\ Len(built) = 3
    /\ \E n \in 1..3 : built[n].polygon = RawText
    /\ \E n \in 1..3 : PolysOf(built[n].name) # {} /\ built[n].polygon = NoText
    /\ \E n \in 1..3 : PolysOf(built[n].name) = {}

(***************************************************************************)
(* find_tree on a catalog with two tables on a page, with display texts    *)
(* that recur, and with links back to pages met before                     *)
(***************************************************************************)

\* The catalog: every page answers; the first page has up to three links
\* in its table of subregions and one in its table of special subregions;
\* the second page may link to itself and the third back to the second
Catalogs ==
    {[status |-> [p \in 1..3 |-> 200], links |-> <<l1, l2, l3>>,
      special |-> <<s1, <<>>, <<>>>>] :
        l1 \in LinksOver({<<"a">>, <<"F">>}, {PageHref(2), PageHref(3)}, MaxLinks + 1),
        l2 \in LinksOver({<<"a">>}, {PageHref(2), PageHref(3), <<"g">>}, 1),
        l3 \in LinksOver({<<"a">>}, {PageHref(2), <<"k">>}, 1),
        s1 \in LinksOver({<<"a">>}, {PageHref(2), <<"f">>}, 1)}

\* the builder is run again on the same catalog
FindTreeAgain ==
    /\ tpc # "idle"
    /\ rerun = [kind |-> "none"]
    /\ \E c \in {navigate_node([tree |-> <<>>, urls |-> <<>>, gets |-> <<>>,
                                raised |-> FALSE, node |-> 0], URL, <<>>, 1)} :
          rerun' = IF c.raised THEN [kind |-> "raised"]
                   ELSE [kind |-> "returned", tree |-> c.tree, urls |-> c.urls]
    /\ UNCHANGED <<FetchVars, geofabrik_urls, node_name, url_out, CityVars, ParseVars,
                   RegionVars, FindVars, BuildVars, second, RequestVars, ppc,
                   PosterVars, CountryVars>>

InitCatalog ==
    /\ FetchIdle
    /\ UrlIdle
    /\ CityIdle
    /\ ParseIdle
    /\ RegionsIdle
    /\ FindIdle
    /\ TreeIdle
    /\ MoreIdle
    /\ site \in Catalogs
    /\ tpc = "idle"
    /\ region_tree = NoTree
    /\ region_urls = <<>>
    /\ gets = <<>>

NextCatalog ==
    \/ FindTree
    \/ FindTreeAgain

SpecCatalog == InitCatalog /\ [][NextCatalog]_vars

(***************************************************************************)
(* Claims about the order and the end of the crawl, checked under          *)
(* SpecCatalog                                                             *)
(***************************************************************************)

\* the links of the page of node n as the page shows them: the table of
\* subregions, then the table of special subregions, each top to bottom
Discovered(n) ==
    site.links[PageAt(region_tree[n].url)] \o site.special[PageAt(region_tree[n].url)]

\* node m stands for the page that the link leads to from the page of n
FromLink(n, m, link) ==
    /\ region_tree[m].name = unidecode(link.text)
    /\ region_tree[m].url = urljoin(region_tree[n].url, link.href)

\* C25: the children of a node follow the order in which the page shows
\* their links (subregions before special subregions, top to bottom), and
\* a second run of find_tree on the same catalog returns the same tree
\* and the same URL index.
C25_ChildrenInLinkOrder ==
    (tpc = "returned" /\ rerun.kind = "returned") =>
        /\ rerun.tree = region_tree
        /\ rerun.urls = region_urls
        /\ \A n \in 1..Len(region_tree) :
              \A i, j \in 1..Len(region_tree[n].children) :
                  i < j => \E a, b \in 1..Len(Discovered(n)) :
                              /\ a < b
                              /\ FromLink(n, region_tree[n].children[i], Discovered(n)[a])
                              /\ FromLink(n, region_tree[n].children[j], Discovered(n)[b])

\* the number of nodes on the longest way down from node n
MaxOf(S) == CHOOSE x \in S : \A y \in S : y <= x
RECURSIVE Height(_, _)
Height(tree, n) ==
    IF tree[n].children = <<>> THEN 1
    ELSE 1 + MaxOf({Height(tree, tree[n].children[i]) : i \in 1..Len(tree[n].children)})

\* C26: find_tree comes to an end and returns a tree on every catalog,
\* also when a page links to a page on the way down to it or when two
\* ways lead to a page: the first node is the root, every other node is
\* the child of exactly one node, and no way down the tree is longer than
\* the catalog has pages.
C26_ReturnsBoundedTree ==
    tpc # "idle" =>
        /\ tpc = "returned"
        /\ \A m \in 2..Len(region_tree) :
              Cardinality({<<n, i>> \in (1..Len(region_tree)) \X (1..(MaxLinks + 2)) :
                              /\ i <= Len(region_tree[n].children)
                              /\ region_tree[n].children[i] = m}) = 1
        /\ \A n \in 1..Len(region_tree) :
              \A i \in 1..Len(region_tree[n].children) :
                  /\ region_tree[n].children[i] > n
                  /\ region_tree[n].children[i] # 1
        /\ Height(region_tree, 1) <= 3

====
